---- MODULE Spec2Model ----
(***************************************************************************)
(* Model of the hybrid classification engine of Papertrail                 *)
(* (src/src/predict.py, class DocumentClassifier).                         *)
(*                                                                         *)
(* Numbers.  Every score, probability and confidence of the code is a      *)
(* float; here each is an integer count of units of 1/One, with One chosen *)
(* so that every product and quotient the code forms is exact:             *)
(*   - 1/100 (all literal increments), 1/n for the pattern-bank sizes      *)
(*     n in {10, 11, 12, 18, 20}, and the factors 0.55, 0.45, 1.2, 0.8,    *)
(*     1.5, 0.1 all divide One = 198 * 100000 without remainder.           *)
(*                                                                         *)
(* Texts.  A text is represented by what the code reads from it: which of  *)
(* the code's patterns and keywords match (as match counts per list), the  *)
(* format flags of _analyze_document_format, its length and word count,    *)
(* and whether it is a str at all.                                         *)
(*                                                                         *)
(* Base model.  The sklearn pipeline is a library, not code of this        *)
(* repository: its output for a text is a parameter of the model (the      *)
(* variable world), constrained only by what the source fixes (classes_,   *)
(* the training label counts that give the class priors).                  *)
(***************************************************************************)
EXTENDS Integers, Sequences, FiniteSets, TLC

VARIABLES
    file,         \* content of model_path on disk
    world,        \* behaviour of the base model on non-empty texts
    pc,           \* where the classifier object is in its life
    model,        \* self.model
    tables,       \* hasattr(self, 'structure_patterns' / 'anti_patterns' / 'keyword_weights')
    load_ret,     \* value returned by the last load_model()
    documents,    \* argument of the running predict_documents call
    idx,          \* position of the for loop over documents.items()
    predictions,  \* the predictions dict of predict_documents
    log,          \* per document: which except branch printed, the rule score vector
    single,       \* trace of the last predict_single call checked on its own
    history,      \* the predict_documents calls that returned: argument and result
    rule,         \* trace of one _apply_memo_other_distinction call, rule by rule
    steps         \* trace of one _calculate_enhanced_scores call, step by step

vars == <<file, world, pc, model, tables, load_ret, documents, idx, predictions, log, single,
          history, rule, steps>>

(***************************** numbers *************************************)

One == 198 * 100000

\* x hundredths, in units of 1/One
Pct(x) == x * (One \div 100)

Min(a, b) == IF a <= b THEN a ELSE b

(***************************** categories **********************************)

\* self.categories, in list order
categories == <<"invoice", "memo", "legal", "report", "contract", "other">>

Categories == {categories[i] : i \in 1..Len(categories)}

\* len(self.structure_patterns[category])
structure_patterns_len ==
    [c \in Categories |->
        CASE c = "invoice"  -> 11
          [] c = "memo"     -> 18
          [] c = "legal"    -> 10
          [] c = "report"   -> 10
          [] c = "contract" -> 12
          [] c = "other"    -> 20]

\* the keys of self.anti_patterns
anti_pattern_keys == {"memo", "other"}

(***************************** texts ***************************************)

\* A text with no match at all: what the code reads from "" (every counter 0).
EmptyText ==
    [kind |-> "str", text_length |-> 0, word_count |-> 0,
     pattern_matches |-> [c \in Categories |-> 0],
     anti_matches |-> [c \in anti_pattern_keys |-> 0],
     high |-> [c \in Categories |-> 0],
     medium |-> [c \in Categories |-> 0],
     low |-> [c \in Categories |-> 0],
     sep_line |-> FALSE, inv_word |-> FALSE, inv_strong |-> FALSE,
     signatures |-> FALSE, sep_twice |-> FALSE, con_word |-> FALSE,
     con_strong |-> FALSE, memo_headers |-> 0, memo_strong |-> FALSE,
     legal_case |-> FALSE, legal_strong |-> FALSE, report_head |-> FALSE,
     report_strong |-> FALSE, other_strong |-> FALSE,
     memo_ind |-> 0, other_ind |-> 0,
     memo_structure_matches |-> 0, technical_matches |-> 0]

(***************************** rule scoring ********************************)

\* predict.py 432-443: one pattern counts once; the share of matched patterns
\* of the category, times 0.6, only when at least one matched
pattern_bank_score(text, c) ==
    IF text.pattern_matches[c] > 0
    THEN (Pct(60) * Min(text.pattern_matches[c], structure_patterns_len[c]))
            \div structure_patterns_len[c]
    ELSE 0

\* predict.py 445-454: 0.4 per matching anti-pattern, at most 0.8
anti_pattern_penalty(text, c) ==
    IF c \in anti_pattern_keys
    THEN Min(Pct(40) * text.anti_matches[c], Pct(80))
    ELSE 0

\* predict.py 456-476: 0.4 / 0.3 / 0.15 per keyword present, at most 0.8
keyword_score(text, c) ==
    Min(Pct(40) * text.high[c] + Pct(30) * text.medium[c] + Pct(15) * text.low[c],
        Pct(80))

\* predict.py 488-548
analyze_document_format(text) ==
    [c \in Categories |->
        CASE c = "invoice" ->
                (IF text.sep_line /\ text.inv_word THEN Pct(30) ELSE 0)
              + (IF text.inv_strong THEN Pct(25) ELSE 0)
          [] c = "contract" ->
                (IF text.signatures THEN Pct(40) ELSE 0)
              + (IF text.sep_twice /\ text.con_word THEN Pct(30) ELSE 0)
              + (IF text.con_strong THEN Pct(25) ELSE 0)
          [] c = "memo" ->
                (IF text.memo_headers >= 2 THEN Pct(40)
                 ELSE IF text.memo_headers >= 1 THEN Pct(20) ELSE 0)
              + (IF text.memo_strong THEN Pct(30) ELSE 0)
          [] c = "legal" ->
                (IF text.legal_case THEN Pct(40) ELSE 0)
              + (IF text.legal_strong THEN Pct(25) ELSE 0)
          [] c = "report" ->
                (IF text.report_head THEN Pct(40) ELSE 0)
              + (IF text.report_strong THEN Pct(25) ELSE 0)
          [] c = "other" ->
                (IF text.other_strong THEN Pct(30) ELSE 0)]

\* predict.py 809-815: one per memo indicator that matches
memo_score(text) == text.memo_ind

\* mutant of other_score: a technical indicator counts once
other_score_single(text) == text.other_ind

\* predict.py 810, 817-820: two per technical indicator that matches
other_score(text) == 2 * text.other_ind

\* predict.py 822-840: the indicator-count rule
indicator_rule(text, scores) ==
    IF memo_score(text) > 0 /\ other_score(text) = 0
    THEN [scores EXCEPT !["memo"] = @ + Pct(60), !["other"] = @ - Pct(50)]
    ELSE IF other_score(text) > 0 /\ memo_score(text) = 0
    THEN [scores EXCEPT !["other"] = @ + Pct(80), !["memo"] = @ - Pct(70)]
    ELSE IF memo_score(text) > other_score(text)
    THEN LET boost == Min((memo_score(text) - other_score(text)) * Pct(40), Pct(50))
         IN  [scores EXCEPT !["memo"] = @ + boost, !["other"] = @ - boost]
    ELSE IF other_score(text) > memo_score(text)
    THEN LET boost == Min((other_score(text) - memo_score(text)) * Pct(50), Pct(80))
         IN  [scores EXCEPT !["other"] = @ + boost,
                            !["memo"] = @ - (boost \div 2) * 3]
    ELSE scores

\* mutant of structure_rule: the technical indicators are not consulted
structure_rule_unguarded(text, scores) ==
    IF text.memo_structure_matches >= 3
    THEN [scores EXCEPT !["memo"] = @ + Pct(60), !["other"] = @ - Pct(50)]
    ELSE IF text.memo_structure_matches >= 2
    THEN [scores EXCEPT !["memo"] = @ + Pct(40), !["other"] = @ - Pct(30)]
    ELSE scores

\* mutant of structure_rule: header lines earn nothing
structure_rule_absent(text, scores) == scores

\* predict.py 842-861: header lines, only without technical indicators
structure_rule(text, scores) ==
    IF text.memo_structure_matches >= 3 /\ other_score(text) = 0
    THEN [scores EXCEPT !["memo"] = @ + Pct(60), !["other"] = @ - Pct(50)]
    ELSE IF text.memo_structure_matches >= 2 /\ other_score(text) = 0
    THEN [scores EXCEPT !["memo"] = @ + Pct(40), !["other"] = @ - Pct(30)]
    ELSE scores

\* mutant of technical_rule: silent when memo indicators matched
technical_rule_guarded(text, scores) ==
    IF memo_score(text) > 0
    THEN scores
    ELSE IF text.technical_matches >= 2
    THEN [scores EXCEPT !["other"] = @ + Pct(70), !["memo"] = @ - Pct(60)]
    ELSE IF text.technical_matches >= 1
    THEN [scores EXCEPT !["other"] = @ + Pct(40), !["memo"] = @ - Pct(30)]
    ELSE scores

\* mutant of technical_rule: the memo score is not taken below zero
technical_rule_floored(text, scores) ==
    LET floor(x) == IF x < 0 THEN 0 ELSE x
    IN  IF text.technical_matches >= 2
        THEN [scores EXCEPT !["other"] = @ + Pct(70), !["memo"] = floor(@ - Pct(60))]
        ELSE IF text.technical_matches >= 1
        THEN [scores EXCEPT !["other"] = @ + Pct(40), !["memo"] = floor(@ - Pct(30))]
        ELSE scores

\* predict.py 863-903: technical document structure
technical_rule(text, scores) ==
    IF text.technical_matches >= 2
    THEN [scores EXCEPT !["other"] = @ + Pct(70), !["memo"] = @ - Pct(60)]
    ELSE IF text.technical_matches >= 1
    THEN [scores EXCEPT !["other"] = @ + Pct(40), !["memo"] = @ - Pct(30)]
    ELSE scores

\* mutant of mixed_rule: no adjustment for mixed signals
mixed_rule_absent(text, scores) == scores

\* mutant of mixed_rule: the two amounts exchanged
mixed_rule_exchanged(text, scores) ==
    IF other_score(text) > 0 /\ memo_score(text) > 0
    THEN [scores EXCEPT !["other"] = @ + Pct(80), !["memo"] = @ - Pct(60)]
    ELSE scores

\* predict.py 905-910: mixed signals
mixed_rule(text, scores) ==
    IF other_score(text) > 0 /\ memo_score(text) > 0
    THEN [scores EXCEPT !["other"] = @ + Pct(60), !["memo"] = @ - Pct(80)]
    ELSE scores

\* predict.py 724-912
apply_memo_other_distinction(text, scores) ==
    mixed_rule(text,
        technical_rule(text,
            structure_rule(text,
                indicator_rule(text, scores))))

\* mutant of initial_scores: only the categories that have anti-patterns
initial_scores_sparse == [c \in anti_pattern_keys |-> 0]

\* predict.py 429: scores = {category: 0.0 for category in self.categories}
initial_scores == [c \in Categories |-> 0]

\* predict.py 432-443: the loop over self.structure_patterns, when it exists
pattern_step(has_tables, text, scores) ==
    [c \in DOMAIN scores |->
        IF has_tables THEN scores[c] + pattern_bank_score(text, c) ELSE scores[c]]

\* predict.py 445-454: the loop over self.anti_patterns, when it exists
anti_pattern_step(has_tables, text, scores) ==
    [c \in DOMAIN scores |->
        IF has_tables THEN scores[c] - anti_pattern_penalty(text, c) ELSE scores[c]]

\* predict.py 456-476: the loop over self.keyword_weights, when it exists
keyword_step(has_tables, text, scores) ==
    [c \in DOMAIN scores |->
        IF has_tables THEN scores[c] + keyword_score(text, c) ELSE scores[c]]

\* predict.py 478-481
format_step(text, scores) ==
    [c \in DOMAIN scores |-> scores[c] + analyze_document_format(text)[c]]

\* predict.py 427-486.  has_tables is hasattr(self, ...) of the three tables,
\* which _setup_format_features sets together.
calculate_enhanced_scores(has_tables, text) ==
    apply_memo_other_distinction(text,
        format_step(text,
            keyword_step(has_tables, text,
                anti_pattern_step(has_tables, text,
                    pattern_step(has_tables, text, initial_scores)))))

(***************************** score fusion ********************************)

\* predict.py 555, 556, 566
ml_weight == 55
pattern_weight == 45
ml_baseline == 3

\* dict.get(key, 0.0)
Get(d, key) == IF key \in DOMAIN d THEN d[key] ELSE 0

\* mutant of combined_scores: every category receives the base model's
\* maximal probability
combined_scores_shared(base_prediction, base_confidence, enhanced_scores) ==
    [c \in Categories |->
        LET ml_score == base_confidence
            pattern_score == Get(enhanced_scores, c)
        IN  (ml_score \div 100) * ml_weight + (pattern_score \div 100) * pattern_weight]

\* mutant of combined_scores: no baseline, a category the base model did not
\* predict receives 0.0
combined_scores_no_baseline(base_prediction, base_confidence, enhanced_scores) ==
    [c \in Categories |->
        LET ml_score == IF c = base_prediction THEN base_confidence ELSE 0
            pattern_score == Get(enhanced_scores, c)
        IN  (ml_score \div 100) * ml_weight + (pattern_score \div 100) * pattern_weight]

\* predict.py 559-569
combined_scores(base_prediction, base_confidence, enhanced_scores) ==
    [c \in Categories |->
        LET ml_score == IF c = base_prediction THEN base_confidence
                        ELSE Pct(ml_baseline)
            pattern_score == Get(enhanced_scores, c)
        IN  (ml_score \div 100) * ml_weight + (pattern_score \div 100) * pattern_weight]

\* mutant of best_category: min in place of max
best_category_min(combined) ==
    LET least(i) == \A j \in 1..Len(categories) :
                        combined[categories[i]] <= combined[categories[j]]
        first == CHOOSE i \in 1..Len(categories) :
                        least(i) /\ \A j \in 1..(i - 1) : ~least(j)
    IN  categories[first]

\* mutant of best_category: among equal maxima the last key wins
best_category_last(combined) ==
    LET best(i) == \A j \in 1..Len(categories) :
                        combined[categories[j]] <= combined[categories[i]]
        last == CHOOSE i \in 1..Len(categories) :
                        best(i) /\ \A j \in (i + 1)..Len(categories) : ~best(j)
    IN  categories[last]

\* predict.py 572: max(combined_scores, key=combined_scores.get) returns the
\* first key, in insertion order, whose value is maximal
best_category(combined) ==
    LET best(i) == \A j \in 1..Len(categories) :
                        combined[categories[j]] <= combined[categories[i]]
        first == CHOOSE i \in 1..Len(categories) :
                        best(i) /\ \A j \in 1..(i - 1) : ~best(j)
    IN  categories[first]

\* mutant of boosted_confidence: above 0.7 the excess is added once, not 1.2 times
boosted_confidence_plain(best_score) ==
    IF best_score > Pct(40)
    THEN LET confidence_boost ==
                 IF best_score > Pct(70)
                 THEN Min(best_score - Pct(70), Pct(25))
                 ELSE IF best_score > Pct(50)
                 THEN Min(best_score - Pct(50), Pct(20))
                 ELSE Min(((best_score - Pct(40)) \div 10) * 8, Pct(15))
         IN  Min(best_score + confidence_boost, One)
    ELSE best_score

\* mutant of boosted_confidence: the boost is subtracted
boosted_confidence_subtracting(best_score) ==
    IF best_score > Pct(40)
    THEN LET confidence_boost ==
                 IF best_score > Pct(70)
                 THEN Min(((best_score - Pct(70)) \div 10) * 12, Pct(25))
                 ELSE IF best_score > Pct(50)
                 THEN Min(best_score - Pct(50), Pct(20))
                 ELSE Min(((best_score - Pct(40)) \div 10) * 8, Pct(15))
         IN  Min(best_score - confidence_boost, One)
    ELSE best_score

\* mutant of boosted_confidence: above 0.7 the operands of the subtraction are
\* exchanged, (0.7 - best_score) * 1.2
boosted_confidence_reversed(best_score) ==
    IF best_score > Pct(40)
    THEN LET confidence_boost ==
                 IF best_score > Pct(70)
                 THEN Min(((Pct(70) - best_score) \div 10) * 12, Pct(25))
                 ELSE IF best_score > Pct(50)
                 THEN Min(best_score - Pct(50), Pct(20))
                 ELSE Min(((best_score - Pct(40)) \div 10) * 8, Pct(15))
         IN  Min(best_score + confidence_boost, One)
    ELSE best_score

\* predict.py 575-590
boosted_confidence(best_score) ==
    IF best_score > Pct(40)
    THEN LET confidence_boost ==
                 IF best_score > Pct(70)
                 THEN Min(((best_score - Pct(70)) \div 10) * 12, Pct(25))
                 ELSE IF best_score > Pct(50)
                 THEN Min(best_score - Pct(50), Pct(20))
                 ELSE Min(((best_score - Pct(40)) \div 10) * 8, Pct(15))
         IN  Min(best_score + confidence_boost, One)
    ELSE best_score

\* mutant of pattern_boosted: the sum is not clamped to 1.0
pattern_boosted_unclamped(final_confidence, pattern_strength) ==
    IF pattern_strength > Pct(60)
    THEN final_confidence + Min(pattern_strength \div 10, Pct(10))
    ELSE final_confidence

\* predict.py 592-596
pattern_boosted(final_confidence, pattern_strength) ==
    IF pattern_strength > Pct(60)
    THEN Min(final_confidence + Min(pattern_strength \div 10, Pct(10)), One)
    ELSE final_confidence

\* predict.py 550-598; combined and best_score are the locals of the call,
\* kept for the properties that speak of the fused score
combine_predictions(base_prediction, base_confidence, enhanced_scores) ==
    LET combined == combined_scores(base_prediction, base_confidence, enhanced_scores)
        best == best_category(combined)
        best_score == combined[best]
    IN  [category |-> best,
         confidence |-> pattern_boosted(boosted_confidence(best_score),
                                        Get(enhanced_scores, best)),
         combined |-> combined,
         best_score |-> best_score]

(***************************** base model **********************************)

\* self.model: None, the pipeline create_dummy_model fits on the bundled
\* corpus, or an object unpickled from a file this program did not write
ModelValues == {"none", "bundled", "foreign"}

\* labels of a model that was not trained on the six categories
ForeignClasses == (Categories \ {"other"}) \cup {"receipt"}

\* self.model.classes_ ; predict.py 135-154 for the bundled model
classes_(m) == IF m = "foreign" THEN ForeignClasses ELSE Categories

\* maximal probabilities (in hundredths) the base model is taken to report
ProbLevels == {20, 50, 90}

\* predict.py 135-154: 15 memo labels and 12 of each other category among 75;
\* MultinomialNB answers a text without any feature with these priors
class_prior(c) == IF c = "memo" THEN Pct(20) ELSE Pct(16)

\* probability map with one class at p hundredths and the rest shared evenly
Peaked(classes, top, p) ==
    [c \in classes |-> IF c = top THEN Pct(p)
                       ELSE Pct((100 - p) \div (Cardinality(classes) - 1))]

Worlds == [top : Categories, p : ProbLevels, foreign_raises : BOOLEAN]

\* the same, and the base models that are certain of their class (1.0)
WorldsWithCertain ==
    [top : Categories, p : ProbLevels \cup {100}, foreign_raises : BOOLEAN]

\* mutant of base_model: the model's answer drifts with the position of the
\* document in the batch
base_model_drifting(m, w, text) ==
    LET w2 == IF idx > 1 THEN [w EXCEPT !.top = "other", !.p = 50] ELSE w
    IN  IF text.kind = "none" \/ (m = "foreign" /\ w2.foreign_raises)
        THEN [raises |-> TRUE, prediction |-> "other", probabilities |-> [c \in {} |-> 0]]
        ELSE IF m = "bundled" /\ text.text_length = 0
        THEN [raises |-> FALSE, prediction |-> "memo",
              probabilities |-> [c \in Categories |-> class_prior(c)]]
        ELSE LET top == IF w2.top \in classes_(m) THEN w2.top ELSE "receipt"
             IN  [raises |-> FALSE, prediction |-> top,
                  probabilities |-> Peaked(classes_(m), top, w2.p)]

\* self.model.predict([text])[0] and self.model.predict_proba([text])[0]
\* (predict.py 409-410, 625): both run the same pipeline, so they raise together
base_model(m, w, text) ==
    IF text.kind = "none" \/ (m = "foreign" /\ w.foreign_raises)
    THEN [raises |-> TRUE, prediction |-> "other", probabilities |-> [c \in {} |-> 0]]
    ELSE IF m = "bundled" /\ text.text_length = 0
    THEN [raises |-> FALSE, prediction |-> "memo",
          probabilities |-> [c \in Categories |-> class_prior(c)]]
    ELSE LET top == IF w.top \in classes_(m) THEN w.top ELSE "receipt"
         IN  [raises |-> FALSE, prediction |-> top,
              probabilities |-> Peaked(classes_(m), top, w.p)]

\* max(base_probabilities)
MaxOf(f) == CHOOSE v \in {f[c] : c \in DOMAIN f} : \A c \in DOMAIN f : f[c] <= v

(***************************** classification ******************************)

EmptyMap == [c \in {} |-> 0]

\* predict.py 394-425.  error: the except branch ran; fused: _combine_predictions
\* ran; scores, combined, best_score: the locals of the call.
predict_single(m, has_tables, w, text) ==
    LET fallback(err) ==
            [category |-> "other", confidence |-> 0, error |-> err, fused |-> FALSE,
             scores |-> EmptyMap, combined |-> EmptyMap, best_score |-> 0]
        base == base_model(m, w, text)
    IN  IF m = "none" THEN fallback(FALSE)
        ELSE IF base.raises THEN fallback(TRUE)
        \* a text that is not a str: re.search / str.split raise TypeError
        ELSE IF text.kind # "str" THEN fallback(TRUE)
        ELSE LET enhanced_scores == calculate_enhanced_scores(has_tables, text)
                 r == combine_predictions(base.prediction,
                                          MaxOf(base.probabilities), enhanced_scores)
             IN  [category |-> r.category, confidence |-> r.confidence,
                  error |-> FALSE, fused |-> TRUE, scores |-> enhanced_scores,
                  combined |-> r.combined, best_score |-> r.best_score]

\* predict.py 643-649
degraded_result ==
    [predicted_category |-> "other", confidence |-> 0, probabilities |-> EmptyMap,
     text_length |-> 0, word_count |-> 0]

\* mutant of classify_document: the fused scores are reported as probabilities
classify_document_fused(m, has_tables, w, text) ==
    LET r == predict_single(m, has_tables, w, text)
        base == base_model(m, w, text)
    IN  IF base.raises
        THEN degraded_result
        ELSE [predicted_category |-> r.category,
              confidence |-> r.confidence,
              probabilities |-> IF r.fused THEN r.combined ELSE base.probabilities,
              text_length |-> text.text_length,
              word_count |-> text.word_count]

\* mutant of classify_document: the confidence is averaged with the one of the
\* document classified just before in the same call
classify_document_smoothed(m, has_tables, w, text) ==
    LET r == predict_single(m, has_tables, w, text)
        base == base_model(m, w, text)
    IN  IF base.raises
        THEN degraded_result
        ELSE [predicted_category |-> r.category,
              confidence |-> IF (idx - 1) \in DOMAIN predictions
                             THEN (r.confidence + predictions[idx - 1].confidence) \div 2
                             ELSE r.confidence,
              probabilities |-> base.probabilities,
              text_length |-> text.text_length,
              word_count |-> text.word_count]

\* predict.py 621-649: the body of the loop for one (filename, text)
classify_document(m, has_tables, w, text) ==
    LET r == predict_single(m, has_tables, w, text)
        base == base_model(m, w, text)
    IN  IF base.raises
        THEN degraded_result
        ELSE [predicted_category |-> r.category,
              confidence |-> r.confidence,
              probabilities |-> base.probabilities,
              text_length |-> text.text_length,
              word_count |-> text.word_count]

(***************************** sample texts ********************************)
\* Match counts of concrete texts under the patterns and keywords of
\* predict.py 191-345, 729-891 and the flags of 493-546.

\* "TO: Staff\nFROM: Manager\nSUBJECT: Policy Update\nDATE: 2024-01-15"
MemoText ==
    [EmptyText EXCEPT
        !.text_length = 63,
        !.word_count = 9,
        !.pattern_matches["memo"] = 6,
        !.anti_matches["other"] = 2,
        !.high["memo"] = 2,
        !.medium["memo"] = 1,
        !.memo_headers = 4,
        !.memo_ind = 2,
        !.memo_structure_matches = 4]

\* MemoText followed by "\nTechnical Specification\nVersion 2.1\nSystem Requirements"
MixedText ==
    [EmptyText EXCEPT
        !.text_length = 119,
        !.word_count = 15,
        !.pattern_matches["memo"] = 6,
        !.pattern_matches["other"] = 3,
        !.anti_matches["memo"] = 3,
        !.anti_matches["other"] = 2,
        !.high["memo"] = 2,
        !.high["other"] = 2,
        !.medium["memo"] = 1,
        !.medium["other"] = 1,
        !.low["other"] = 1,
        !.memo_headers = 4,
        !.other_strong = TRUE,
        !.memo_ind = 2,
        !.other_ind = 3,
        !.memo_structure_matches = 4]

\* "Invoice Number: 5678\nAmount Due: $1,200.00\nNet 30 days"
InvoiceText ==
    [EmptyText EXCEPT
        !.text_length = 54,
        !.word_count = 9,
        !.pattern_matches["invoice"] = 4,
        !.high["invoice"] = 3,
        !.medium["invoice"] = 1,
        !.inv_word = TRUE,
        !.inv_strong = TRUE]

\* "professional monthly business market": two low keywords of invoice and two
\* of report, nothing else
TieText ==
    [EmptyText EXCEPT
        !.text_length = 36,
        !.word_count = 4,
        !.low["invoice"] = 2,
        !.low["report"] = 2]

\* b"TO: Staff": a bytes object; len() and split() work, str patterns do not
BytesText == [EmptyText EXCEPT !.kind = "bytes", !.text_length = 9, !.word_count = 2]

\* None in place of a text
NoneText == [EmptyText EXCEPT !.kind = "none"]

Texts == {EmptyText, MemoText, MixedText, InvoiceText, BytesText, NoneText}

(***************************** a wider sample of texts *********************)
\* One row per text: the texts are the line-wise concatenations of a memo
\* block (none; "Please note the update."; the four header lines TO:/FROM:/
\* SUBJECT:/DATE:; the headers with a memorandum body), a technical block
\* (none; "Version 2.1"; "Technical Specification / Version 2.1 / System
\* Requirements"; the same with section and figure references; numbered
\* steps only) and a block of one other category (none, or a light or heavy
\* invoice, legal notice, report, contract).  A row lists what the code reads
\* from the text: text_length, word_count, pattern_matches (6, in category
\* order), anti_matches (memo, other), high (6), medium (6), low (6), the 14
\* format flags, memo_ind, other_ind, memo_structure_matches,
\* technical_matches.
WideRows == {
    <<0, 0, 0, 0, 0, 0, 0, 0, 0, 0, 0, 0, 0, 0, 0, 0, 0, 0, 0, 0, 0, 0, 0, 0, 0, 0, 0, 0, 0, 0, 0, 0, 0, 0, 0, 0, 0, 0, 0, 0, 0, 0, 0, 0, 0, 0>>,
    <<21, 3, 2, 0, 0, 0, 0, 0, 0, 0, 2, 0, 0, 0, 0, 0, 0, 0, 0, 0, 0, 0, 0, 0, 0, 0, 0, 0, 0, 1, 1, 0, 0, 0, 0, 0, 0, 0, 0, 0, 0, 0, 0, 0, 0, 0>>,
    <<203, 31, 11, 0, 0, 0, 0, 0, 0, 0, 7, 0, 0, 0, 1, 0, 3, 0, 0, 0, 0, 0, 0, 0, 0, 0, 0, 0, 1, 1, 1, 0, 0, 0, 0, 0, 0, 0, 0, 0, 0, 0, 0, 0, 0, 0>>,
    <<9, 1, 0, 0, 1, 0, 0, 0, 0, 0, 0, 0, 1, 0, 0, 0, 0, 0, 0, 0, 0, 0, 0, 0, 0, 0, 0, 0, 0, 0, 0, 0, 0, 0, 0, 0, 0, 0, 0, 0, 0, 0, 0, 0, 0, 0>>,
    <<175, 23, 0, 0, 9, 0, 0, 0, 0, 0, 0, 0, 6, 0, 1, 0, 0, 0, 6, 0, 0, 0, 0, 0, 3, 0, 0, 0, 0, 0, 0, 0, 0, 1, 0, 0, 0, 1, 1, 0, 0, 0, 0, 0, 0, 0>>,
    <<14, 2, 0, 0, 0, 1, 0, 0, 0, 0, 0, 0, 0, 0, 0, 0, 0, 0, 0, 2, 0, 0, 0, 0, 0, 0, 0, 0, 0, 0, 0, 0, 0, 0, 0, 0, 0, 0, 0, 0, 1, 0, 0, 0, 0, 0>>,
    <<183, 21, 0, 0, 0, 10, 0, 0, 0, 0, 0, 0, 0, 5, 0, 0, 1, 0, 0, 5, 0, 0, 1, 0, 0, 3, 0, 0, 0, 0, 0, 0, 0, 0, 0, 0, 0, 0, 0, 1, 1, 0, 0, 0, 0, 0>>,
    <<9, 1, 0, 0, 0, 0, 1, 0, 0, 0, 0, 0, 0, 0, 1, 0, 0, 0, 0, 0, 0, 0, 0, 0, 0, 0, 0, 0, 0, 0, 0, 0, 0, 0, 0, 0, 0, 0, 0, 0, 0, 0, 0, 0, 0, 0>>,
    <<193, 24, 0, 1, 0, 0, 11, 0, 0, 0, 0, 0, 0, 0, 4, 0, 1, 1, 0, 0, 4, 0, 0, 0, 0, 0, 3, 0, 0, 0, 0, 1, 0, 1, 1, 0, 0, 0, 0, 0, 0, 0, 1, 0, 0, 0>>,
    <<11, 2, 0, 0, 0, 0, 0, 1, 1, 0, 0, 0, 0, 0, 0, 0, 0, 0, 0, 0, 0, 0, 0, 0, 0, 0, 0, 1, 0, 0, 0, 0, 0, 0, 0, 0, 0, 0, 0, 0, 0, 0, 0, 1, 0, 0>>,
    <<33, 5, 2, 0, 0, 0, 0, 1, 1, 0, 2, 0, 0, 0, 0, 0, 0, 0, 0, 0, 0, 0, 0, 0, 0, 0, 0, 1, 0, 1, 1, 0, 0, 0, 0, 0, 0, 0, 0, 0, 0, 0, 0, 1, 0, 0>>,
    <<215, 33, 11, 0, 0, 0, 0, 1, 1, 0, 7, 0, 0, 0, 1, 0, 3, 0, 0, 0, 0, 0, 0, 0, 0, 0, 0, 1, 1, 1, 1, 0, 0, 0, 0, 0, 0, 0, 0, 0, 0, 0, 0, 1, 0, 0>>,
    <<21, 3, 0, 0, 1, 0, 0, 1, 1, 0, 0, 0, 1, 0, 0, 0, 0, 0, 0, 0, 0, 0, 0, 0, 0, 0, 0, 1, 0, 0, 0, 0, 0, 0, 0, 0, 0, 0, 0, 0, 0, 0, 0, 1, 0, 0>>,
    <<187, 25, 0, 0, 9, 0, 0, 1, 1, 0, 0, 0, 6, 0, 1, 0, 0, 0, 6, 0, 0, 0, 0, 0, 3, 0, 0, 1, 0, 0, 0, 0, 0, 1, 0, 0, 0, 1, 1, 0, 0, 0, 0, 1, 0, 0>>,
    <<26, 4, 0, 0, 0, 1, 0, 1, 1, 0, 0, 0, 0, 0, 0, 0, 0, 0, 0, 2, 0, 0, 0, 0, 0, 0, 0, 1, 0, 0, 0, 0, 0, 0, 0, 0, 0, 0, 0, 0, 1, 0, 0, 1, 0, 0>>,
    <<195, 23, 0, 0, 0, 10, 0, 1, 1, 0, 0, 0, 0, 5, 0, 0, 1, 0, 0, 5, 0, 0, 1, 0, 0, 3, 0, 1, 0, 0, 0, 0, 0, 0, 0, 0, 0, 0, 0, 1, 1, 0, 0, 1, 0, 0>>,
    <<21, 3, 0, 0, 0, 0, 1, 1, 1, 0, 0, 0, 0, 0, 1, 0, 0, 0, 0, 0, 0, 0, 0, 0, 0, 0, 0, 1, 0, 0, 0, 0, 0, 0, 0, 0, 0, 0, 0, 0, 0, 0, 0, 1, 0, 0>>,
    <<205, 26, 0, 1, 0, 0, 11, 1, 1, 0, 0, 0, 0, 0, 4, 0, 1, 1, 0, 0, 4, 0, 0, 0, 0, 0, 3, 1, 0, 0, 0, 1, 0, 1, 1, 0, 0, 0, 0, 0, 0, 0, 1, 1, 0, 0>>,
    <<55, 6, 0, 0, 0, 0, 0, 3, 3, 0, 0, 0, 0, 0, 0, 2, 0, 0, 0, 0, 0, 1, 0, 0, 0, 0, 0, 1, 0, 0, 0, 0, 0, 0, 0, 0, 0, 0, 0, 0, 0, 1, 0, 3, 0, 0>>,
    <<77, 9, 2, 0, 0, 0, 0, 3, 3, 0, 2, 0, 0, 0, 0, 2, 0, 0, 0, 0, 0, 1, 0, 0, 0, 0, 0, 1, 0, 1, 1, 0, 0, 0, 0, 0, 0, 0, 0, 0, 0, 1, 0, 3, 0, 0>>,
    <<259, 37, 11, 0, 0, 0, 0, 3, 3, 0, 7, 0, 0, 0, 1, 2, 3, 0, 0, 0, 0, 1, 0, 0, 0, 0, 0, 1, 1, 1, 1, 0, 0, 0, 0, 0, 0, 0, 0, 0, 0, 1, 0, 3, 0, 0>>,
    <<65, 7, 0, 0, 1, 0, 0, 3, 3, 0, 0, 0, 1, 0, 0, 2, 0, 0, 0, 0, 0, 1, 0, 0, 0, 0, 0, 1, 0, 0, 0, 0, 0, 0, 0, 0, 0, 0, 0, 0, 0, 1, 0, 3, 0, 0>>,
    <<231, 29, 0, 0, 9, 0, 0, 3, 3, 0, 0, 0, 6, 0, 1, 2, 0, 0, 6, 0, 0, 1, 0, 0, 3, 0, 0, 1, 0, 0, 0, 0, 0, 1, 0, 0, 0, 1, 1, 0, 0, 1, 0, 3, 0, 0>>,
    <<70, 8, 0, 0, 0, 1, 0, 3, 3, 0, 0, 0, 0, 0, 0, 2, 0, 0, 0, 2, 0, 1, 0, 0, 0, 0, 0, 1, 0, 0, 0, 0, 0, 0, 0, 0, 0, 0, 0, 0, 1, 1, 0, 3, 0, 0>>,
    <<239, 27, 0, 0, 0, 10, 0, 3, 3, 0, 0, 0, 0, 5, 0, 2, 1, 0, 0, 5, 0, 1, 1, 0, 0, 3, 0, 1, 0, 0, 0, 0, 0, 0, 0, 0, 0, 0, 0, 1, 1, 1, 0, 3, 0, 0>>,
    <<65, 7, 0, 0, 0, 0, 1, 3, 3, 0, 0, 0, 0, 0, 1, 2, 0, 0, 0, 0, 0, 1, 0, 0, 0, 0, 0, 1, 0, 0, 0, 0, 0, 0, 0, 0, 0, 0, 0, 0, 0, 1, 0, 3, 0, 0>>,
    <<249, 30, 0, 1, 0, 0, 11, 3, 3, 0, 0, 0, 0, 0, 4, 2, 1, 1, 0, 0, 4, 1, 0, 0, 0, 0, 3, 1, 0, 0, 0, 1, 0, 1, 1, 0, 0, 0, 0, 0, 0, 1, 1, 3, 0, 0>>,
    <<96, 14, 0, 0, 0, 0, 0, 3, 3, 0, 0, 0, 0, 0, 0, 2, 0, 0, 0, 0, 0, 1, 0, 0, 0, 0, 0, 1, 0, 0, 0, 0, 0, 0, 0, 0, 0, 0, 0, 0, 0, 1, 0, 3, 0, 3>>,
    <<118, 17, 2, 0, 0, 0, 0, 3, 3, 0, 2, 0, 0, 0, 0, 2, 0, 0, 0, 0, 0, 1, 0, 0, 0, 0, 0, 1, 0, 1, 1, 0, 0, 0, 0, 0, 0, 0, 0, 0, 0, 1, 0, 3, 0, 3>>,
    <<300, 45, 11, 0, 0, 0, 0, 3, 3, 0, 7, 0, 0, 0, 1, 2, 3, 0, 0, 0, 0, 1, 0, 0, 0, 0, 0, 1, 1, 1, 1, 0, 0, 0, 0, 0, 0, 0, 0, 0, 0, 1, 0, 3, 0, 3>>,
    <<106, 15, 0, 0, 1, 0, 0, 3, 3, 0, 0, 0, 1, 0, 0, 2, 0, 0, 0, 0, 0, 1, 0, 0, 0, 0, 0, 1, 0, 0, 0, 0, 0, 0, 0, 0, 0, 0, 0, 0, 0, 1, 0, 3, 0, 3>>,
    <<272, 37, 0, 0, 9, 0, 0, 3, 3, 0, 0, 0, 6, 0, 1, 2, 0, 0, 6, 0, 0, 1, 0, 0, 3, 0, 0, 1, 0, 0, 0, 0, 0, 1, 0, 0, 0, 1, 1, 0, 0, 1, 0, 3, 0, 3>>,
    <<111, 16, 0, 0, 0, 1, 0, 3, 3, 0, 0, 0, 0, 0, 0, 2, 0, 0, 0, 2, 0, 1, 0, 0, 0, 0, 0, 1, 0, 0, 0, 0, 0, 0, 0, 0, 0, 0, 0, 0, 1, 1, 0, 3, 0, 3>>,
    <<280, 35, 0, 0, 0, 10, 0, 3, 3, 0, 0, 0, 0, 5, 0, 2, 1, 0, 0, 5, 0, 1, 1, 0, 0, 3, 0, 1, 0, 0, 0, 0, 0, 0, 0, 0, 0, 0, 0, 1, 1, 1, 0, 3, 0, 3>>,
    <<106, 15, 0, 0, 0, 0, 1, 3, 3, 0, 0, 0, 0, 0, 1, 2, 0, 0, 0, 0, 0, 1, 0, 0, 0, 0, 0, 1, 0, 0, 0, 0, 0, 0, 0, 0, 0, 0, 0, 0, 0, 1, 0, 3, 0, 3>>,
    <<290, 38, 0, 1, 0, 0, 11, 3, 3, 0, 0, 0, 0, 0, 4, 2, 1, 1, 0, 0, 4, 1, 0, 0, 0, 0, 3, 1, 0, 0, 0, 1, 0, 1, 1, 0, 0, 0, 0, 0, 0, 1, 1, 3, 0, 3>>,
    <<28, 6, 0, 0, 0, 0, 0, 0, 0, 0, 0, 0, 0, 0, 0, 0, 0, 0, 0, 0, 0, 0, 0, 0, 0, 0, 0, 0, 0, 0, 0, 0, 0, 0, 0, 0, 0, 0, 0, 0, 0, 0, 0, 0, 0, 2>>,
    <<50, 9, 2, 0, 0, 0, 0, 0, 0, 0, 2, 0, 0, 0, 0, 0, 0, 0, 0, 0, 0, 0, 0, 0, 0, 0, 0, 0, 0, 1, 1, 0, 0, 0, 0, 0, 0, 0, 0, 0, 0, 0, 0, 0, 0, 2>>,
    <<232, 37, 11, 0, 0, 0, 0, 0, 0, 0, 7, 0, 0, 0, 1, 0, 3, 0, 0, 0, 0, 0, 0, 0, 0, 0, 0, 0, 1, 1, 1, 0, 0, 0, 0, 0, 0, 0, 0, 0, 0, 0, 0, 0, 0, 2>>,
    <<38, 7, 0, 0, 1, 0, 0, 0, 0, 0, 0, 0, 1, 0, 0, 0, 0, 0, 0, 0, 0, 0, 0, 0, 0, 0, 0, 0, 0, 0, 0, 0, 0, 0, 0, 0, 0, 0, 0, 0, 0, 0, 0, 0, 0, 2>>,
    <<204, 29, 0, 0, 9, 0, 0, 0, 0, 0, 0, 0, 6, 0, 1, 0, 0, 0, 6, 0, 0, 0, 0, 0, 3, 0, 0, 0, 0, 0, 0, 0, 0, 1, 0, 0, 0, 1, 1, 0, 0, 0, 0, 0, 0, 2>>,
    <<43, 8, 0, 0, 0, 1, 0, 0, 0, 0, 0, 0, 0, 0, 0, 0, 0, 0, 0, 2, 0, 0, 0, 0, 0, 0, 0, 0, 0, 0, 0, 0, 0, 0, 0, 0, 0, 0, 0, 0, 1, 0, 0, 0, 0, 2>>,
    <<212, 27, 0, 0, 0, 10, 0, 0, 0, 0, 0, 0, 0, 5, 0, 0, 1, 0, 0, 5, 0, 0, 1, 0, 0, 3, 0, 0, 0, 0, 0, 0, 0, 0, 0, 0, 0, 0, 0, 1, 1, 0, 0, 0, 0, 2>>,
    <<38, 7, 0, 0, 0, 0, 1, 0, 0, 0, 0, 0, 0, 0, 1, 0, 0, 0, 0, 0, 0, 0, 0, 0, 0, 0, 0, 0, 0, 0, 0, 0, 0, 0, 0, 0, 0, 0, 0, 0, 0, 0, 0, 0, 0, 2>>,
    <<222, 30, 0, 1, 0, 0, 11, 0, 0, 0, 0, 0, 0, 0, 4, 0, 1, 1, 0, 0, 4, 0, 0, 0, 0, 0, 3, 0, 0, 0, 0, 1, 0, 1, 1, 0, 0, 0, 0, 0, 0, 0, 1, 0, 0, 2>>,
    <<23, 4, 0, 0, 0, 0, 0, 0, 0, 0, 0, 0, 0, 0, 0, 0, 0, 1, 0, 0, 0, 0, 0, 0, 0, 0, 0, 0, 0, 0, 0, 0, 0, 0, 0, 0, 0, 0, 0, 0, 0, 0, 1, 0, 0, 0>>,
    <<45, 7, 2, 0, 0, 0, 0, 0, 0, 0, 2, 0, 0, 0, 0, 0, 0, 1, 0, 0, 0, 0, 0, 0, 0, 0, 0, 0, 0, 1, 1, 0, 0, 0, 0, 0, 0, 0, 0, 0, 0, 0, 1, 0, 0, 0>>,
    <<227, 35, 11, 0, 0, 0, 0, 0, 0, 0, 7, 0, 0, 0, 1, 0, 3, 1, 0, 0, 0, 0, 0, 0, 0, 0, 0, 0, 1, 1, 1, 0, 0, 0, 0, 0, 0, 0, 0, 0, 0, 0, 1, 0, 0, 0>>,
    <<33, 5, 0, 0, 1, 0, 0, 0, 0, 0, 0, 0, 1, 0, 0, 0, 0, 1, 0, 0, 0, 0, 0, 0, 0, 0, 0, 0, 0, 0, 0, 0, 0, 0, 0, 0, 0, 0, 0, 0, 0, 0, 1, 0, 0, 0>>,
    <<199, 27, 0, 0, 9, 0, 0, 0, 0, 0, 0, 0, 6, 0, 1, 0, 0, 1, 6, 0, 0, 0, 0, 0, 3, 0, 0, 0, 0, 0, 0, 0, 0, 1, 0, 0, 0, 1, 1, 0, 0, 0, 1, 0, 0, 0>>,
    <<38, 6, 0, 0, 0, 1, 0, 0, 0, 0, 0, 0, 0, 0, 0, 0, 0, 1, 0, 2, 0, 0, 0, 0, 0, 0, 0, 0, 0, 0, 0, 0, 0, 0, 0, 0, 0, 0, 0, 0, 1, 0, 1, 0, 0, 0>>,
    <<207, 25, 0, 0, 0, 10, 0, 0, 0, 0, 0, 0, 0, 5, 0, 0, 1, 1, 0, 5, 0, 0, 1, 0, 0, 3, 0, 0, 0, 0, 0, 0, 0, 0, 0, 0, 0, 0, 0, 1, 1, 0, 1, 0, 0, 0>>,
    <<33, 5, 0, 0, 0, 0, 1, 0, 0, 0, 0, 0, 0, 0, 1, 0, 0, 1, 0, 0, 0, 0, 0, 0, 0, 0, 0, 0, 0, 0, 0, 0, 0, 0, 0, 0, 0, 0, 0, 0, 0, 0, 1, 0, 0, 0>>,
    <<217, 28, 0, 1, 0, 0, 11, 0, 0, 0, 0, 0, 0, 0, 4, 0, 1, 2, 0, 0, 4, 0, 0, 0, 0, 0, 3, 0, 0, 0, 0, 1, 0, 1, 1, 0, 0, 0, 0, 0, 0, 0, 2, 0, 0, 0>>,
    <<35, 6, 0, 0, 0, 0, 0, 1, 1, 0, 0, 0, 0, 0, 0, 0, 0, 1, 0, 0, 0, 0, 0, 0, 0, 0, 0, 1, 0, 0, 0, 0, 0, 0, 0, 0, 0, 0, 0, 0, 0, 0, 1, 1, 0, 0>>,
    <<57, 9, 2, 0, 0, 0, 0, 1, 1, 0, 2, 0, 0, 0, 0, 0, 0, 1, 0, 0, 0, 0, 0, 0, 0, 0, 0, 1, 0, 1, 1, 0, 0, 0, 0, 0, 0, 0, 0, 0, 0, 0, 1, 1, 0, 0>>,
    <<239, 37, 11, 0, 0, 0, 0, 1, 1, 0, 7, 0, 0, 0, 1, 0, 3, 1, 0, 0, 0, 0, 0, 0, 0, 0, 0, 1, 1, 1, 1, 0, 0, 0, 0, 0, 0, 0, 0, 0, 0, 0, 1, 1, 0, 0>>,
    <<45, 7, 0, 0, 1, 0, 0, 1, 1, 0, 0, 0, 1, 0, 0, 0, 0, 1, 0, 0, 0, 0, 0, 0, 0, 0, 0, 1, 0, 0, 0, 0, 0, 0, 0, 0, 0, 0, 0, 0, 0, 0, 1, 1, 0, 0>>,
    <<211, 29, 0, 0, 9, 0, 0, 1, 1, 0, 0, 0, 6, 0, 1, 0, 0, 1, 6, 0, 0, 0, 0, 0, 3, 0, 0, 1, 0, 0, 0, 0, 0, 1, 0, 0, 0, 1, 1, 0, 0, 0, 1, 1, 0, 0>>,
    <<50, 8, 0, 0, 0, 1, 0, 1, 1, 0, 0, 0, 0, 0, 0, 0, 0, 1, 0, 2, 0, 0, 0, 0, 0, 0, 0, 1, 0, 0, 0, 0, 0, 0, 0, 0, 0, 0, 0, 0, 1, 0, 1, 1, 0, 0>>,
    <<219, 27, 0, 0, 0, 10, 0, 1, 1, 0, 0, 0, 0, 5, 0, 0, 1, 1, 0, 5, 0, 0, 1, 0, 0, 3, 0, 1, 0, 0, 0, 0, 0, 0, 0, 0, 0, 0, 0, 1, 1, 0, 1, 1, 0, 0>>,
    <<45, 7, 0, 0, 0, 0, 1, 1, 1, 0, 0, 0, 0, 0, 1, 0, 0, 1, 0, 0, 0, 0, 0, 0, 0, 0, 0, 1, 0, 0, 0, 0, 0, 0, 0, 0, 0, 0, 0, 0, 0, 0, 1, 1, 0, 0>>,
    <<229, 30, 0, 1, 0, 0, 11, 1, 1, 0, 0, 0, 0, 0, 4, 0, 1, 2, 0, 0, 4, 0, 0, 0, 0, 0, 3, 1, 0, 0, 0, 1, 0, 1, 1, 0, 0, 0, 0, 0, 0, 0, 2, 1, 0, 0>>,
    <<79, 10, 0, 0, 0, 0, 0, 3, 3, 0, 0, 0, 0, 0, 0, 2, 0, 1, 0, 0, 0, 1, 0, 0, 0, 0, 0, 1, 0, 0, 0, 0, 0, 0, 0, 0, 0, 0, 0, 0, 0, 1, 1, 3, 0, 0>>,
    <<101, 13, 2, 0, 0, 0, 0, 3, 3, 0, 2, 0, 0, 0, 0, 2, 0, 1, 0, 0, 0, 1, 0, 0, 0, 0, 0, 1, 0, 1, 1, 0, 0, 0, 0, 0, 0, 0, 0, 0, 0, 1, 1, 3, 0, 0>>,
    <<283, 41, 11, 0, 0, 0, 0, 3, 3, 0, 7, 0, 0, 0, 1, 2, 3, 1, 0, 0, 0, 1, 0, 0, 0, 0, 0, 1, 1, 1, 1, 0, 0, 0, 0, 0, 0, 0, 0, 0, 0, 1, 1, 3, 0, 0>>,
    <<89, 11, 0, 0, 1, 0, 0, 3, 3, 0, 0, 0, 1, 0, 0, 2, 0, 1, 0, 0, 0, 1, 0, 0, 0, 0, 0, 1, 0, 0, 0, 0, 0, 0, 0, 0, 0, 0, 0, 0, 0, 1, 1, 3, 0, 0>>,
    <<255, 33, 0, 0, 9, 0, 0, 3, 3, 0, 0, 0, 6, 0, 1, 2, 0, 1, 6, 0, 0, 1, 0, 0, 3, 0, 0, 1, 0, 0, 0, 0, 0, 1, 0, 0, 0, 1, 1, 0, 0, 1, 1, 3, 0, 0>>,
    <<94, 12, 0, 0, 0, 1, 0, 3, 3, 0, 0, 0, 0, 0, 0, 2, 0, 1, 0, 2, 0, 1, 0, 0, 0, 0, 0, 1, 0, 0, 0, 0, 0, 0, 0, 0, 0, 0, 0, 0, 1, 1, 1, 3, 0, 0>>,
    <<263, 31, 0, 0, 0, 10, 0, 3, 3, 0, 0, 0, 0, 5, 0, 2, 1, 1, 0, 5, 0, 1, 1, 0, 0, 3, 0, 1, 0, 0, 0, 0, 0, 0, 0, 0, 0, 0, 0, 1, 1, 1, 1, 3, 0, 0>>,
    <<89, 11, 0, 0, 0, 0, 1, 3, 3, 0, 0, 0, 0, 0, 1, 2, 0, 1, 0, 0, 0, 1, 0, 0, 0, 0, 0, 1, 0, 0, 0, 0, 0, 0, 0, 0, 0, 0, 0, 0, 0, 1, 1, 3, 0, 0>>,
    <<273, 34, 0, 1, 0, 0, 11, 3, 3, 0, 0, 0, 0, 0, 4, 2, 1, 2, 0, 0, 4, 1, 0, 0, 0, 0, 3, 1, 0, 0, 0, 1, 0, 1, 1, 0, 0, 0, 0, 0, 0, 1, 2, 3, 0, 0>>,
    <<120, 18, 0, 0, 0, 0, 0, 3, 3, 0, 0, 0, 0, 0, 0, 2, 0, 1, 0, 0, 0, 1, 0, 0, 0, 0, 0, 1, 0, 0, 0, 0, 0, 0, 0, 0, 0, 0, 0, 0, 0, 1, 1, 3, 0, 3>>,
    <<142, 21, 2, 0, 0, 0, 0, 3, 3, 0, 2, 0, 0, 0, 0, 2, 0, 1, 0, 0, 0, 1, 0, 0, 0, 0, 0, 1, 0, 1, 1, 0, 0, 0, 0, 0, 0, 0, 0, 0, 0, 1, 1, 3, 0, 3>>,
    <<324, 49, 11, 0, 0, 0, 0, 3, 3, 0, 7, 0, 0, 0, 1, 2, 3, 1, 0, 0, 0, 1, 0, 0, 0, 0, 0, 1, 1, 1, 1, 0, 0, 0, 0, 0, 0, 0, 0, 0, 0, 1, 1, 3, 0, 3>>,
    <<130, 19, 0, 0, 1, 0, 0, 3, 3, 0, 0, 0, 1, 0, 0, 2, 0, 1, 0, 0, 0, 1, 0, 0, 0, 0, 0, 1, 0, 0, 0, 0, 0, 0, 0, 0, 0, 0, 0, 0, 0, 1, 1, 3, 0, 3>>,
    <<296, 41, 0, 0, 9, 0, 0, 3, 3, 0, 0, 0, 6, 0, 1, 2, 0, 1, 6, 0, 0, 1, 0, 0, 3, 0, 0, 1, 0, 0, 0, 0, 0, 1, 0, 0, 0, 1, 1, 0, 0, 1, 1, 3, 0, 3>>,
    <<135, 20, 0, 0, 0, 1, 0, 3, 3, 0, 0, 0, 0, 0, 0, 2, 0, 1, 0, 2, 0, 1, 0, 0, 0, 0, 0, 1, 0, 0, 0, 0, 0, 0, 0, 0, 0, 0, 0, 0, 1, 1, 1, 3, 0, 3>>,
    <<304, 39, 0, 0, 0, 10, 0, 3, 3, 0, 0, 0, 0, 5, 0, 2, 1, 1, 0, 5, 0, 1, 1, 0, 0, 3, 0, 1, 0, 0, 0, 0, 0, 0, 0, 0, 0, 0, 0, 1, 1, 1, 1, 3, 0, 3>>,
    <<130, 19, 0, 0, 0, 0, 1, 3, 3, 0, 0, 0, 0, 0, 1, 2, 0, 1, 0, 0, 0, 1, 0, 0, 0, 0, 0, 1, 0, 0, 0, 0, 0, 0, 0, 0, 0, 0, 0, 0, 0, 1, 1, 3, 0, 3>>,
    <<314, 42, 0, 1, 0, 0, 11, 3, 3, 0, 0, 0, 0, 0, 4, 2, 1, 2, 0, 0, 4, 1, 0, 0, 0, 0, 3, 1, 0, 0, 0, 1, 0, 1, 1, 0, 0, 0, 0, 0, 0, 1, 2, 3, 0, 3>>,
    <<52, 10, 0, 0, 0, 0, 0, 0, 0, 0, 0, 0, 0, 0, 0, 0, 0, 1, 0, 0, 0, 0, 0, 0, 0, 0, 0, 0, 0, 0, 0, 0, 0, 0, 0, 0, 0, 0, 0, 0, 0, 0, 1, 0, 0, 2>>,
    <<74, 13, 2, 0, 0, 0, 0, 0, 0, 0, 2, 0, 0, 0, 0, 0, 0, 1, 0, 0, 0, 0, 0, 0, 0, 0, 0, 0, 0, 1, 1, 0, 0, 0, 0, 0, 0, 0, 0, 0, 0, 0, 1, 0, 0, 2>>,
    <<256, 41, 11, 0, 0, 0, 0, 0, 0, 0, 7, 0, 0, 0, 1, 0, 3, 1, 0, 0, 0, 0, 0, 0, 0, 0, 0, 0, 1, 1, 1, 0, 0, 0, 0, 0, 0, 0, 0, 0, 0, 0, 1, 0, 0, 2>>,
    <<62, 11, 0, 0, 1, 0, 0, 0, 0, 0, 0, 0, 1, 0, 0, 0, 0, 1, 0, 0, 0, 0, 0, 0, 0, 0, 0, 0, 0, 0, 0, 0, 0, 0, 0, 0, 0, 0, 0, 0, 0, 0, 1, 0, 0, 2>>,
    <<228, 33, 0, 0, 9, 0, 0, 0, 0, 0, 0, 0, 6, 0, 1, 0, 0, 1, 6, 0, 0, 0, 0, 0, 3, 0, 0, 0, 0, 0, 0, 0, 0, 1, 0, 0, 0, 1, 1, 0, 0, 0, 1, 0, 0, 2>>,
    <<67, 12, 0, 0, 0, 1, 0, 0, 0, 0, 0, 0, 0, 0, 0, 0, 0, 1, 0, 2, 0, 0, 0, 0, 0, 0, 0, 0, 0, 0, 0, 0, 0, 0, 0, 0, 0, 0, 0, 0, 1, 0, 1, 0, 0, 2>>,
    <<236, 31, 0, 0, 0, 10, 0, 0, 0, 0, 0, 0, 0, 5, 0, 0, 1, 1, 0, 5, 0, 0, 1, 0, 0, 3, 0, 0, 0, 0, 0, 0, 0, 0, 0, 0, 0, 0, 0, 1, 1, 0, 1, 0, 0, 2>>,
    <<62, 11, 0, 0, 0, 0, 1, 0, 0, 0, 0, 0, 0, 0, 1, 0, 0, 1, 0, 0, 0, 0, 0, 0, 0, 0, 0, 0, 0, 0, 0, 0, 0, 0, 0, 0, 0, 0, 0, 0, 0, 0, 1, 0, 0, 2>>,
    <<246, 34, 0, 1, 0, 0, 11, 0, 0, 0, 0, 0, 0, 0, 4, 0, 1, 2, 0, 0, 4, 0, 0, 0, 0, 0, 3, 0, 0, 0, 0, 1, 0, 1, 1, 0, 0, 0, 0, 0, 0, 0, 2, 0, 0, 2>>,
    <<63, 9, 0, 6, 0, 0, 0, 0, 0, 2, 0, 2, 0, 0, 0, 0, 0, 1, 0, 0, 0, 0, 0, 0, 0, 0, 0, 0, 0, 0, 0, 0, 0, 0, 0, 4, 0, 0, 0, 0, 0, 0, 2, 0, 4, 0>>,
    <<85, 12, 2, 6, 0, 0, 0, 0, 0, 2, 2, 2, 0, 0, 0, 0, 0, 1, 0, 0, 0, 0, 0, 0, 0, 0, 0, 0, 0, 1, 1, 0, 0, 0, 0, 4, 0, 0, 0, 0, 0, 0, 2, 0, 4, 0>>,
    <<267, 40, 11, 6, 0, 0, 0, 0, 0, 2, 7, 2, 0, 0, 1, 0, 3, 1, 0, 0, 0, 0, 0, 0, 0, 0, 0, 0, 1, 1, 1, 0, 0, 0, 0, 4, 0, 0, 0, 0, 0, 0, 2, 0, 4, 0>>,
    <<73, 10, 0, 6, 1, 0, 0, 0, 0, 2, 0, 2, 1, 0, 0, 0, 0, 1, 0, 0, 0, 0, 0, 0, 0, 0, 0, 0, 0, 0, 0, 0, 0, 0, 0, 4, 0, 0, 0, 0, 0, 0, 2, 0, 4, 0>>,
    <<239, 32, 0, 6, 9, 0, 0, 0, 0, 2, 0, 2, 6, 0, 1, 0, 0, 1, 6, 0, 0, 0, 0, 0, 3, 0, 0, 0, 0, 0, 0, 0, 0, 1, 0, 4, 0, 1, 1, 0, 0, 0, 2, 0, 4, 0>>,
    <<78, 11, 0, 6, 0, 1, 0, 0, 0, 2, 0, 2, 0, 0, 0, 0, 0, 1, 0, 2, 0, 0, 0, 0, 0, 0, 0, 0, 0, 0, 0, 0, 0, 0, 0, 4, 0, 0, 0, 0, 1, 0, 2, 0, 4, 0>>,
    <<247, 30, 0, 6, 0, 10, 0, 0, 0, 2, 0, 2, 0, 5, 0, 0, 1, 1, 0, 5, 0, 0, 1, 0, 0, 3, 0, 0, 0, 0, 0, 0, 0, 0, 0, 4, 0, 0, 0, 1, 1, 0, 2, 0, 4, 0>>,
    <<73, 10, 0, 6, 0, 0, 1, 0, 0, 2, 0, 2, 0, 0, 1, 0, 0, 1, 0, 0, 0, 0, 0, 0, 0, 0, 0, 0, 0, 0, 0, 0, 0, 0, 0, 4, 0, 0, 0, 0, 0, 0, 2, 0, 4, 0>>,
    <<257, 33, 0, 7, 0, 0, 11, 0, 0, 2, 0, 2, 0, 0, 4, 0, 1, 2, 0, 0, 4, 0, 0, 0, 0, 0, 3, 0, 0, 0, 0, 1, 0, 1, 1, 4, 0, 0, 0, 0, 0, 0, 3, 0, 4, 0>>,
    <<75, 11, 0, 6, 0, 0, 0, 1, 1, 2, 0, 2, 0, 0, 0, 0, 0, 1, 0, 0, 0, 0, 0, 0, 0, 0, 0, 1, 0, 0, 0, 0, 0, 0, 0, 4, 0, 0, 0, 0, 0, 0, 2, 1, 4, 0>>,
    <<97, 14, 2, 6, 0, 0, 0, 1, 1, 2, 2, 2, 0, 0, 0, 0, 0, 1, 0, 0, 0, 0, 0, 0, 0, 0, 0, 1, 0, 1, 1, 0, 0, 0, 0, 4, 0, 0, 0, 0, 0, 0, 2, 1, 4, 0>>,
    <<279, 42, 11, 6, 0, 0, 0, 1, 1, 2, 7, 2, 0, 0, 1, 0, 3, 1, 0, 0, 0, 0, 0, 0, 0, 0, 0, 1, 1, 1, 1, 0, 0, 0, 0, 4, 0, 0, 0, 0, 0, 0, 2, 1, 4, 0>>,
    <<85, 12, 0, 6, 1, 0, 0, 1, 1, 2, 0, 2, 1, 0, 0, 0, 0, 1, 0, 0, 0, 0, 0, 0, 0, 0, 0, 1, 0, 0, 0, 0, 0, 0, 0, 4, 0, 0, 0, 0, 0, 0, 2, 1, 4, 0>>,
    <<251, 34, 0, 6, 9, 0, 0, 1, 1, 2, 0, 2, 6, 0, 1, 0, 0, 1, 6, 0, 0, 0, 0, 0, 3, 0, 0, 1, 0, 0, 0, 0, 0, 1, 0, 4, 0, 1, 1, 0, 0, 0, 2, 1, 4, 0>>,
    <<90, 13, 0, 6, 0, 1, 0, 1, 1, 2, 0, 2, 0, 0, 0, 0, 0, 1, 0, 2, 0, 0, 0, 0, 0, 0, 0, 1, 0, 0, 0, 0, 0, 0, 0, 4, 0, 0, 0, 0, 1, 0, 2, 1, 4, 0>>,
    <<259, 32, 0, 6, 0, 10, 0, 1, 1, 2, 0, 2, 0, 5, 0, 0, 1, 1, 0, 5, 0, 0, 1, 0, 0, 3, 0, 1, 0, 0, 0, 0, 0, 0, 0, 4, 0, 0, 0, 1, 1, 0, 2, 1, 4, 0>>,
    <<85, 12, 0, 6, 0, 0, 1, 1, 1, 2, 0, 2, 0, 0, 1, 0, 0, 1, 0, 0, 0, 0, 0, 0, 0, 0, 0, 1, 0, 0, 0, 0, 0, 0, 0, 4, 0, 0, 0, 0, 0, 0, 2, 1, 4, 0>>,
    <<269, 35, 0, 7, 0, 0, 11, 1, 1, 2, 0, 2, 0, 0, 4, 0, 1, 2, 0, 0, 4, 0, 0, 0, 0, 0, 3, 1, 0, 0, 0, 1, 0, 1, 1, 4, 0, 0, 0, 0, 0, 0, 3, 1, 4, 0>>,
    <<119, 15, 0, 6, 0, 0, 0, 3, 3, 2, 0, 2, 0, 0, 0, 2, 0, 1, 0, 0, 0, 1, 0, 0, 0, 0, 0, 1, 0, 0, 0, 0, 0, 0, 0, 4, 0, 0, 0, 0, 0, 1, 2, 3, 4, 0>>,
    <<141, 18, 2, 6, 0, 0, 0, 3, 3, 2, 2, 2, 0, 0, 0, 2, 0, 1, 0, 0, 0, 1, 0, 0, 0, 0, 0, 1, 0, 1, 1, 0, 0, 0, 0, 4, 0, 0, 0, 0, 0, 1, 2, 3, 4, 0>>,
    <<323, 46, 11, 6, 0, 0, 0, 3, 3, 2, 7, 2, 0, 0, 1, 2, 3, 1, 0, 0, 0, 1, 0, 0, 0, 0, 0, 1, 1, 1, 1, 0, 0, 0, 0, 4, 0, 0, 0, 0, 0, 1, 2, 3, 4, 0>>,
    <<129, 16, 0, 6, 1, 0, 0, 3, 3, 2, 0, 2, 1, 0, 0, 2, 0, 1, 0, 0, 0, 1, 0, 0, 0, 0, 0, 1, 0, 0, 0, 0, 0, 0, 0, 4, 0, 0, 0, 0, 0, 1, 2, 3, 4, 0>>,
    <<295, 38, 0, 6, 9, 0, 0, 3, 3, 2, 0, 2, 6, 0, 1, 2, 0, 1, 6, 0, 0, 1, 0, 0, 3, 0, 0, 1, 0, 0, 0, 0, 0, 1, 0, 4, 0, 1, 1, 0, 0, 1, 2, 3, 4, 0>>,
    <<134, 17, 0, 6, 0, 1, 0, 3, 3, 2, 0, 2, 0, 0, 0, 2, 0, 1, 0, 2, 0, 1, 0, 0, 0, 0, 0, 1, 0, 0, 0, 0, 0, 0, 0, 4, 0, 0, 0, 0, 1, 1, 2, 3, 4, 0>>,
    <<303, 36, 0, 6, 0, 10, 0, 3, 3, 2, 0, 2, 0, 5, 0, 2, 1, 1, 0, 5, 0, 1, 1, 0, 0, 3, 0, 1, 0, 0, 0, 0, 0, 0, 0, 4, 0, 0, 0, 1, 1, 1, 2, 3, 4, 0>>,
    <<129, 16, 0, 6, 0, 0, 1, 3, 3, 2, 0, 2, 0, 0, 1, 2, 0, 1, 0, 0, 0, 1, 0, 0, 0, 0, 0, 1, 0, 0, 0, 0, 0, 0, 0, 4, 0, 0, 0, 0, 0, 1, 2, 3, 4, 0>>,
    <<313, 39, 0, 7, 0, 0, 11, 3, 3, 2, 0, 2, 0, 0, 4, 2, 1, 2, 0, 0, 4, 1, 0, 0, 0, 0, 3, 1, 0, 0, 0, 1, 0, 1, 1, 4, 0, 0, 0, 0, 0, 1, 3, 3, 4, 0>>,
    <<160, 23, 0, 6, 0, 0, 0, 3, 3, 2, 0, 2, 0, 0, 0, 2, 0, 1, 0, 0, 0, 1, 0, 0, 0, 0, 0, 1, 0, 0, 0, 0, 0, 0, 0, 4, 0, 0, 0, 0, 0, 1, 2, 3, 4, 3>>,
    <<182, 26, 2, 6, 0, 0, 0, 3, 3, 2, 2, 2, 0, 0, 0, 2, 0, 1, 0, 0, 0, 1, 0, 0, 0, 0, 0, 1, 0, 1, 1, 0, 0, 0, 0, 4, 0, 0, 0, 0, 0, 1, 2, 3, 4, 3>>,
    <<364, 54, 11, 6, 0, 0, 0, 3, 3, 2, 7, 2, 0, 0, 1, 2, 3, 1, 0, 0, 0, 1, 0, 0, 0, 0, 0, 1, 1, 1, 1, 0, 0, 0, 0, 4, 0, 0, 0, 0, 0, 1, 2, 3, 4, 3>>,
    <<170, 24, 0, 6, 1, 0, 0, 3, 3, 2, 0, 2, 1, 0, 0, 2, 0, 1, 0, 0, 0, 1, 0, 0, 0, 0, 0, 1, 0, 0, 0, 0, 0, 0, 0, 4, 0, 0, 0, 0, 0, 1, 2, 3, 4, 3>>,
    <<336, 46, 0, 6, 9, 0, 0, 3, 3, 2, 0, 2, 6, 0, 1, 2, 0, 1, 6, 0, 0, 1, 0, 0, 3, 0, 0, 1, 0, 0, 0, 0, 0, 1, 0, 4, 0, 1, 1, 0, 0, 1, 2, 3, 4, 3>>,
    <<175, 25, 0, 6, 0, 1, 0, 3, 3, 2, 0, 2, 0, 0, 0, 2, 0, 1, 0, 2, 0, 1, 0, 0, 0, 0, 0, 1, 0, 0, 0, 0, 0, 0, 0, 4, 0, 0, 0, 0, 1, 1, 2, 3, 4, 3>>,
    <<344, 44, 0, 6, 0, 10, 0, 3, 3, 2, 0, 2, 0, 5, 0, 2, 1, 1, 0, 5, 0, 1, 1, 0, 0, 3, 0, 1, 0, 0, 0, 0, 0, 0, 0, 4, 0, 0, 0, 1, 1, 1, 2, 3, 4, 3>>,
    <<170, 24, 0, 6, 0, 0, 1, 3, 3, 2, 0, 2, 0, 0, 1, 2, 0, 1, 0, 0, 0, 1, 0, 0, 0, 0, 0, 1, 0, 0, 0, 0, 0, 0, 0, 4, 0, 0, 0, 0, 0, 1, 2, 3, 4, 3>>,
    <<354, 47, 0, 7, 0, 0, 11, 3, 3, 2, 0, 2, 0, 0, 4, 2, 1, 2, 0, 0, 4, 1, 0, 0, 0, 0, 3, 1, 0, 0, 0, 1, 0, 1, 1, 4, 0, 0, 0, 0, 0, 1, 3, 3, 4, 3>>,
    <<92, 15, 0, 6, 0, 0, 0, 0, 0, 2, 0, 2, 0, 0, 0, 0, 0, 1, 0, 0, 0, 0, 0, 0, 0, 0, 0, 0, 0, 0, 0, 0, 0, 0, 0, 4, 0, 0, 0, 0, 0, 0, 2, 0, 4, 2>>,
    <<114, 18, 2, 6, 0, 0, 0, 0, 0, 2, 2, 2, 0, 0, 0, 0, 0, 1, 0, 0, 0, 0, 0, 0, 0, 0, 0, 0, 0, 1, 1, 0, 0, 0, 0, 4, 0, 0, 0, 0, 0, 0, 2, 0, 4, 2>>,
    <<296, 46, 11, 6, 0, 0, 0, 0, 0, 2, 7, 2, 0, 0, 1, 0, 3, 1, 0, 0, 0, 0, 0, 0, 0, 0, 0, 0, 1, 1, 1, 0, 0, 0, 0, 4, 0, 0, 0, 0, 0, 0, 2, 0, 4, 2>>,
    <<102, 16, 0, 6, 1, 0, 0, 0, 0, 2, 0, 2, 1, 0, 0, 0, 0, 1, 0, 0, 0, 0, 0, 0, 0, 0, 0, 0, 0, 0, 0, 0, 0, 0, 0, 4, 0, 0, 0, 0, 0, 0, 2, 0, 4, 2>>,
    <<268, 38, 0, 6, 9, 0, 0, 0, 0, 2, 0, 2, 6, 0, 1, 0, 0, 1, 6, 0, 0, 0, 0, 0, 3, 0, 0, 0, 0, 0, 0, 0, 0, 1, 0, 4, 0, 1, 1, 0, 0, 0, 2, 0, 4, 2>>,
    <<107, 17, 0, 6, 0, 1, 0, 0, 0, 2, 0, 2, 0, 0, 0, 0, 0, 1, 0, 2, 0, 0, 0, 0, 0, 0, 0, 0, 0, 0, 0, 0, 0, 0, 0, 4, 0, 0, 0, 0, 1, 0, 2, 0, 4, 2>>,
    <<276, 36, 0, 6, 0, 10, 0, 0, 0, 2, 0, 2, 0, 5, 0, 0, 1, 1, 0, 5, 0, 0, 1, 0, 0, 3, 0, 0, 0, 0, 0, 0, 0, 0, 0, 4, 0, 0, 0, 1, 1, 0, 2, 0, 4, 2>>,
    <<102, 16, 0, 6, 0, 0, 1, 0, 0, 2, 0, 2, 0, 0, 1, 0, 0, 1, 0, 0, 0, 0, 0, 0, 0, 0, 0, 0, 0, 0, 0, 0, 0, 0, 0, 4, 0, 0, 0, 0, 0, 0, 2, 0, 4, 2>>,
    <<286, 39, 0, 7, 0, 0, 11, 0, 0, 2, 0, 2, 0, 0, 4, 0, 1, 2, 0, 0, 4, 0, 0, 0, 0, 0, 3, 0, 0, 0, 0, 1, 0, 1, 1, 4, 0, 0, 0, 0, 0, 0, 3, 0, 4, 2>>,
    <<161, 21, 0, 12, 0, 0, 0, 0, 0, 5, 0, 6, 0, 0, 0, 0, 0, 3, 0, 0, 1, 0, 0, 0, 0, 0, 0, 0, 0, 0, 0, 0, 0, 0, 0, 4, 1, 0, 0, 0, 0, 0, 6, 0, 4, 0>>,
    <<183, 24, 2, 12, 0, 0, 0, 0, 0, 5, 2, 6, 0, 0, 0, 0, 0, 3, 0, 0, 1, 0, 0, 0, 0, 0, 0, 0, 0, 1, 1, 0, 0, 0, 0, 4, 1, 0, 0, 0, 0, 0, 6, 0, 4, 0>>,
    <<365, 52, 11, 12, 0, 0, 0, 0, 0, 5, 7, 6, 0, 0, 1, 0, 3, 3, 0, 0, 1, 0, 0, 0, 0, 0, 0, 0, 1, 1, 1, 0, 0, 0, 0, 4, 1, 0, 0, 0, 0, 0, 6, 0, 4, 0>>,
    <<171, 22, 0, 12, 1, 0, 0, 0, 0, 5, 0, 6, 1, 0, 0, 0, 0, 3, 0, 0, 1, 0, 0, 0, 0, 0, 0, 0, 0, 0, 0, 0, 0, 0, 0, 4, 1, 0, 0, 0, 0, 0, 6, 0, 4, 0>>,
    <<337, 44, 0, 12, 9, 0, 0, 0, 0, 5, 0, 6, 6, 0, 1, 0, 0, 3, 6, 0, 1, 0, 0, 0, 3, 0, 0, 0, 0, 0, 0, 0, 0, 1, 0, 4, 1, 1, 1, 0, 0, 0, 6, 0, 4, 0>>,
    <<176, 23, 0, 12, 0, 1, 0, 0, 0, 5, 0, 6, 0, 0, 0, 0, 0, 3, 0, 2, 1, 0, 0, 0, 0, 0, 0, 0, 0, 0, 0, 0, 0, 0, 0, 4, 1, 0, 0, 0, 1, 0, 6, 0, 4, 0>>,
    <<345, 42, 0, 12, 0, 10, 0, 0, 0, 5, 0, 6, 0, 5, 0, 0, 1, 3, 0, 5, 1, 0, 1, 0, 0, 3, 0, 0, 0, 0, 0, 0, 0, 0, 0, 4, 1, 0, 0, 1, 1, 0, 6, 0, 4, 0>>,
    <<171, 22, 0, 12, 0, 0, 1, 0, 0, 5, 0, 6, 0, 0, 1, 0, 0, 3, 0, 0, 1, 0, 0, 0, 0, 0, 0, 0, 0, 0, 0, 0, 0, 0, 0, 4, 1, 0, 0, 0, 0, 0, 6, 0, 4, 0>>,
    <<355, 45, 0, 12, 0, 0, 11, 0, 0, 5, 0, 6, 0, 0, 4, 0, 1, 3, 0, 0, 4, 0, 0, 0, 0, 0, 3, 0, 0, 0, 0, 1, 0, 1, 1, 4, 1, 0, 0, 0, 0, 0, 6, 0, 4, 0>>,
    <<173, 23, 0, 12, 0, 0, 0, 1, 1, 5, 0, 6, 0, 0, 0, 0, 0, 3, 0, 0, 1, 0, 0, 0, 0, 0, 0, 1, 0, 0, 0, 0, 0, 0, 0, 4, 1, 0, 0, 0, 0, 0, 6, 1, 4, 0>>,
    <<195, 26, 2, 12, 0, 0, 0, 1, 1, 5, 2, 6, 0, 0, 0, 0, 0, 3, 0, 0, 1, 0, 0, 0, 0, 0, 0, 1, 0, 1, 1, 0, 0, 0, 0, 4, 1, 0, 0, 0, 0, 0, 6, 1, 4, 0>>,
    <<377, 54, 11, 12, 0, 0, 0, 1, 1, 5, 7, 6, 0, 0, 1, 0, 3, 3, 0, 0, 1, 0, 0, 0, 0, 0, 0, 1, 1, 1, 1, 0, 0, 0, 0, 4, 1, 0, 0, 0, 0, 0, 6, 1, 4, 0>>,
    <<183, 24, 0, 12, 1, 0, 0, 1, 1, 5, 0, 6, 1, 0, 0, 0, 0, 3, 0, 0, 1, 0, 0, 0, 0, 0, 0, 1, 0, 0, 0, 0, 0, 0, 0, 4, 1, 0, 0, 0, 0, 0, 6, 1, 4, 0>>,
    <<349, 46, 0, 12, 9, 0, 0, 1, 1, 5, 0, 6, 6, 0, 1, 0, 0, 3, 6, 0, 1, 0, 0, 0, 3, 0, 0, 1, 0, 0, 0, 0, 0, 1, 0, 4, 1, 1, 1, 0, 0, 0, 6, 1, 4, 0>>,
    <<188, 25, 0, 12, 0, 1, 0, 1, 1, 5, 0, 6, 0, 0, 0, 0, 0, 3, 0, 2, 1, 0, 0, 0, 0, 0, 0, 1, 0, 0, 0, 0, 0, 0, 0, 4, 1, 0, 0, 0, 1, 0, 6, 1, 4, 0>>,
    <<357, 44, 0, 12, 0, 10, 0, 1, 1, 5, 0, 6, 0, 5, 0, 0, 1, 3, 0, 5, 1, 0, 1, 0, 0, 3, 0, 1, 0, 0, 0, 0, 0, 0, 0, 4, 1, 0, 0, 1, 1, 0, 6, 1, 4, 0>>,
    <<183, 24, 0, 12, 0, 0, 1, 1, 1, 5, 0, 6, 0, 0, 1, 0, 0, 3, 0, 0, 1, 0, 0, 0, 0, 0, 0, 1, 0, 0, 0, 0, 0, 0, 0, 4, 1, 0, 0, 0, 0, 0, 6, 1, 4, 0>>,
    <<367, 47, 0, 12, 0, 0, 11, 1, 1, 5, 0, 6, 0, 0, 4, 0, 1, 3, 0, 0, 4, 0, 0, 0, 0, 0, 3, 1, 0, 0, 0, 1, 0, 1, 1, 4, 1, 0, 0, 0, 0, 0, 6, 1, 4, 0>>,
    <<217, 27, 0, 12, 0, 0, 0, 3, 3, 5, 0, 6, 0, 0, 0, 2, 0, 3, 0, 0, 1, 1, 0, 0, 0, 0, 0, 1, 0, 0, 0, 0, 0, 0, 0, 4, 1, 0, 0, 0, 0, 1, 6, 3, 4, 0>>,
    <<239, 30, 2, 12, 0, 0, 0, 3, 3, 5, 2, 6, 0, 0, 0, 2, 0, 3, 0, 0, 1, 1, 0, 0, 0, 0, 0, 1, 0, 1, 1, 0, 0, 0, 0, 4, 1, 0, 0, 0, 0, 1, 6, 3, 4, 0>>,
    <<421, 58, 11, 12, 0, 0, 0, 3, 3, 5, 7, 6, 0, 0, 1, 2, 3, 3, 0, 0, 1, 1, 0, 0, 0, 0, 0, 1, 1, 1, 1, 0, 0, 0, 0, 4, 1, 0, 0, 0, 0, 1, 6, 3, 4, 0>>,
    <<227, 28, 0, 12, 1, 0, 0, 3, 3, 5, 0, 6, 1, 0, 0, 2, 0, 3, 0, 0, 1, 1, 0, 0, 0, 0, 0, 1, 0, 0, 0, 0, 0, 0, 0, 4, 1, 0, 0, 0, 0, 1, 6, 3, 4, 0>>,
    <<393, 50, 0, 12, 9, 0, 0, 3, 3, 5, 0, 6, 6, 0, 1, 2, 0, 3, 6, 0, 1, 1, 0, 0, 3, 0, 0, 1, 0, 0, 0, 0, 0, 1, 0, 4, 1, 1, 1, 0, 0, 1, 6, 3, 4, 0>>,
    <<232, 29, 0, 12, 0, 1, 0, 3, 3, 5, 0, 6, 0, 0, 0, 2, 0, 3, 0, 2, 1, 1, 0, 0, 0, 0, 0, 1, 0, 0, 0, 0, 0, 0, 0, 4, 1, 0, 0, 0, 1, 1, 6, 3, 4, 0>>,
    <<401, 48, 0, 12, 0, 10, 0, 3, 3, 5, 0, 6, 0, 5, 0, 2, 1, 3, 0, 5, 1, 1, 1, 0, 0, 3, 0, 1, 0, 0, 0, 0, 0, 0, 0, 4, 1, 0, 0, 1, 1, 1, 6, 3, 4, 0>>,
    <<227, 28, 0, 12, 0, 0, 1, 3, 3, 5, 0, 6, 0, 0, 1, 2, 0, 3, 0, 0, 1, 1, 0, 0, 0, 0, 0, 1, 0, 0, 0, 0, 0, 0, 0, 4, 1, 0, 0, 0, 0, 1, 6, 3, 4, 0>>,
    <<411, 51, 0, 12, 0, 0, 11, 3, 3, 5, 0, 6, 0, 0, 4, 2, 1, 3, 0, 0, 4, 1, 0, 0, 0, 0, 3, 1, 0, 0, 0, 1, 0, 1, 1, 4, 1, 0, 0, 0, 0, 1, 6, 3, 4, 0>>,
    <<258, 35, 0, 12, 0, 0, 0, 3, 3, 5, 0, 6, 0, 0, 0, 2, 0, 3, 0, 0, 1, 1, 0, 0, 0, 0, 0, 1, 0, 0, 0, 0, 0, 0, 0, 4, 1, 0, 0, 0, 0, 1, 6, 3, 4, 3>>,
    <<280, 38, 2, 12, 0, 0, 0, 3, 3, 5, 2, 6, 0, 0, 0, 2, 0, 3, 0, 0, 1, 1, 0, 0, 0, 0, 0, 1, 0, 1, 1, 0, 0, 0, 0, 4, 1, 0, 0, 0, 0, 1, 6, 3, 4, 3>>,
    <<462, 66, 11, 12, 0, 0, 0, 3, 3, 5, 7, 6, 0, 0, 1, 2, 3, 3, 0, 0, 1, 1, 0, 0, 0, 0, 0, 1, 1, 1, 1, 0, 0, 0, 0, 4, 1, 0, 0, 0, 0, 1, 6, 3, 4, 3>>,
    <<268, 36, 0, 12, 1, 0, 0, 3, 3, 5, 0, 6, 1, 0, 0, 2, 0, 3, 0, 0, 1, 1, 0, 0, 0, 0, 0, 1, 0, 0, 0, 0, 0, 0, 0, 4, 1, 0, 0, 0, 0, 1, 6, 3, 4, 3>>,
    <<434, 58, 0, 12, 9, 0, 0, 3, 3, 5, 0, 6, 6, 0, 1, 2, 0, 3, 6, 0, 1, 1, 0, 0, 3, 0, 0, 1, 0, 0, 0, 0, 0, 1, 0, 4, 1, 1, 1, 0, 0, 1, 6, 3, 4, 3>>,
    <<273, 37, 0, 12, 0, 1, 0, 3, 3, 5, 0, 6, 0, 0, 0, 2, 0, 3, 0, 2, 1, 1, 0, 0, 0, 0, 0, 1, 0, 0, 0, 0, 0, 0, 0, 4, 1, 0, 0, 0, 1, 1, 6, 3, 4, 3>>,
    <<442, 56, 0, 12, 0, 10, 0, 3, 3, 5, 0, 6, 0, 5, 0, 2, 1, 3, 0, 5, 1, 1, 1, 0, 0, 3, 0, 1, 0, 0, 0, 0, 0, 0, 0, 4, 1, 0, 0, 1, 1, 1, 6, 3, 4, 3>>,
    <<268, 36, 0, 12, 0, 0, 1, 3, 3, 5, 0, 6, 0, 0, 1, 2, 0, 3, 0, 0, 1, 1, 0, 0, 0, 0, 0, 1, 0, 0, 0, 0, 0, 0, 0, 4, 1, 0, 0, 0, 0, 1, 6, 3, 4, 3>>,
    <<452, 59, 0, 12, 0, 0, 11, 3, 3, 5, 0, 6, 0, 0, 4, 2, 1, 3, 0, 0, 4, 1, 0, 0, 0, 0, 3, 1, 0, 0, 0, 1, 0, 1, 1, 4, 1, 0, 0, 0, 0, 1, 6, 3, 4, 3>>,
    <<190, 27, 0, 12, 0, 0, 0, 0, 0, 5, 0, 6, 0, 0, 0, 0, 0, 3, 0, 0, 1, 0, 0, 0, 0, 0, 0, 0, 0, 0, 0, 0, 0, 0, 0, 4, 1, 0, 0, 0, 0, 0, 6, 0, 4, 2>>,
    <<212, 30, 2, 12, 0, 0, 0, 0, 0, 5, 2, 6, 0, 0, 0, 0, 0, 3, 0, 0, 1, 0, 0, 0, 0, 0, 0, 0, 0, 1, 1, 0, 0, 0, 0, 4, 1, 0, 0, 0, 0, 0, 6, 0, 4, 2>>,
    <<394, 58, 11, 12, 0, 0, 0, 0, 0, 5, 7, 6, 0, 0, 1, 0, 3, 3, 0, 0, 1, 0, 0, 0, 0, 0, 0, 0, 1, 1, 1, 0, 0, 0, 0, 4, 1, 0, 0, 0, 0, 0, 6, 0, 4, 2>>,
    <<200, 28, 0, 12, 1, 0, 0, 0, 0, 5, 0, 6, 1, 0, 0, 0, 0, 3, 0, 0, 1, 0, 0, 0, 0, 0, 0, 0, 0, 0, 0, 0, 0, 0, 0, 4, 1, 0, 0, 0, 0, 0, 6, 0, 4, 2>>,
    <<366, 50, 0, 12, 9, 0, 0, 0, 0, 5, 0, 6, 6, 0, 1, 0, 0, 3, 6, 0, 1, 0, 0, 0, 3, 0, 0, 0, 0, 0, 0, 0, 0, 1, 0, 4, 1, 1, 1, 0, 0, 0, 6, 0, 4, 2>>,
    <<205, 29, 0, 12, 0, 1, 0, 0, 0, 5, 0, 6, 0, 0, 0, 0, 0, 3, 0, 2, 1, 0, 0, 0, 0, 0, 0, 0, 0, 0, 0, 0, 0, 0, 0, 4, 1, 0, 0, 0, 1, 0, 6, 0, 4, 2>>,
    <<374, 48, 0, 12, 0, 10, 0, 0, 0, 5, 0, 6, 0, 5, 0, 0, 1, 3, 0, 5, 1, 0, 1, 0, 0, 3, 0, 0, 0, 0, 0, 0, 0, 0, 0, 4, 1, 0, 0, 1, 1, 0, 6, 0, 4, 2>>,
    <<200, 28, 0, 12, 0, 0, 1, 0, 0, 5, 0, 6, 0, 0, 1, 0, 0, 3, 0, 0, 1, 0, 0, 0, 0, 0, 0, 0, 0, 0, 0, 0, 0, 0, 0, 4, 1, 0, 0, 0, 0, 0, 6, 0, 4, 2>>,
    <<384, 51, 0, 12, 0, 0, 11, 0, 0, 5, 0, 6, 0, 0, 4, 0, 1, 3, 0, 0, 4, 0, 0, 0, 0, 0, 3, 0, 0, 0, 0, 1, 0, 1, 1, 4, 1, 0, 0, 0, 0, 0, 6, 0, 4, 2>>}

CatIndex(c) == CHOOSE i \in 1..Len(categories) : categories[i] = c

FromRow(r) ==
    [kind |-> "str", text_length |-> r[1], word_count |-> r[2],
     pattern_matches |-> [c \in Categories |-> r[2 + CatIndex(c)]],
     anti_matches |-> [c \in anti_pattern_keys |-> IF c = "memo" THEN r[9] ELSE r[10]],
     high |-> [c \in Categories |-> r[10 + CatIndex(c)]],
     medium |-> [c \in Categories |-> r[16 + CatIndex(c)]],
     low |-> [c \in Categories |-> r[22 + CatIndex(c)]],
     sep_line |-> r[29] = 1, inv_word |-> r[30] = 1, inv_strong |-> r[31] = 1,
     signatures |-> r[32] = 1, sep_twice |-> r[33] = 1, con_word |-> r[34] = 1,
     con_strong |-> r[35] = 1, memo_headers |-> r[36], memo_strong |-> r[37] = 1,
     legal_case |-> r[38] = 1, legal_strong |-> r[39] = 1, report_head |-> r[40] = 1,
     report_strong |-> r[41] = 1, other_strong |-> r[42] = 1,
     memo_ind |-> r[43], other_ind |-> r[44],
     memo_structure_matches |-> r[45], technical_matches |-> r[46]]

WideTexts == {FromRow(r) : r \in WideRows} \cup {TieText, BytesText, NoneText}

(***************************** the classifier ******************************)

\* the documents dict of one predict_documents call holds at most MaxBatch files
MaxBatch == 2

\* documents, in insertion order; the filename is the position
Batches == UNION {[1..n -> Texts] : n \in 0..MaxBatch}

\* content of model_path: no file, bytes pickle cannot load, a pickled model
FileValues == {"absent", "corrupt", "bundled", "foreign"}

NoCall ==
    [text |-> EmptyText, called |-> FALSE, category |-> "other", confidence |-> 0,
     error |-> FALSE, fused |-> FALSE, scores |-> EmptyMap, combined |-> EmptyMap,
     best_score |-> 0]

\* no call of _apply_memo_other_distinction traced
NoRule ==
    [text |-> EmptyText, scores |-> initial_scores, applied |-> FALSE,
     memo_score |-> 0, other_score |-> 0,
     after_indicator |-> initial_scores, after_structure |-> initial_scores,
     after_technical |-> initial_scores, result |-> initial_scores]

\* no call of _calculate_enhanced_scores traced; the fields of a traced call
\* are those ScoreText sets
NoSteps == [called |-> FALSE]

Init ==
    /\ file \in FileValues
    /\ world \in Worlds
    /\ world.foreign_raises => file = "foreign"
    /\ pc = "new"
    /\ model = "none"
    /\ tables = FALSE
    /\ load_ret = FALSE
    /\ documents = <<>>
    /\ idx = 0
    /\ predictions = EmptyMap
    /\ log = EmptyMap
    /\ single = NoCall
    /\ history = <<>>
    /\ rule = NoRule
    /\ steps = NoSteps

\* predict.py 347-365: the value load_model leaves in self.model
loaded_model(f) == IF f \in {"bundled", "foreign"} THEN f ELSE "none"

\* mutant of load_model_returns: True as soon as the file exists
load_model_returns_exists(f) == f # "absent"

\* predict.py 354-365: the value load_model returns
load_model_returns(f) == f \in {"bundled", "foreign"}

\* predict.py 22-39, with load_model (347-365), create_dummy_model (41-185),
\* _setup_format_features (187-345) and save_model (367-377): a new classifier
\* object is constructed.  save_model swallows every error of the write, so
\* the file may or may not hold the model afterwards.
Construct ==
    /\ pc \in {"new", "ready", "returned"}
    /\ load_ret' = load_model_returns(file)
    /\ IF loaded_model(file) = "none"
       THEN /\ model' = "bundled"
            /\ tables' = TRUE
            /\ \E written \in BOOLEAN : file' = IF written THEN "bundled" ELSE file
       ELSE /\ model' = loaded_model(file)
            /\ tables' = FALSE
            /\ file' = file
    /\ pc' = "ready"
    /\ documents' = <<>>
    /\ idx' = 0
    /\ predictions' = EmptyMap
    /\ log' = EmptyMap
    /\ UNCHANGED <<world, single, history, rule, steps>>

\* predict.py 30: model is a public attribute and None is the value the guards
\* at 404 and 610 test for; a caller puts the classifier back in that state
ClearModel ==
    /\ pc = "ready"
    /\ model # "none"
    /\ model' = "none"
    /\ UNCHANGED <<file, world, pc, tables, load_ret, documents, idx, predictions,
                   log, single, history, rule, steps>>

\* predict.py 600-616: predict_documents is entered
Enter(docs) ==
    /\ documents' = docs
    /\ predictions' = EmptyMap
    /\ log' = EmptyMap
    /\ IF model = "none"
       THEN pc' = "returned" /\ idx' = 0
       ELSE pc' = "loop" /\ idx' = 1
    /\ UNCHANGED <<file, world, model, tables, load_ret, single, rule, steps>>

\* a call predict_documents(documents) with any batch
StartBatch ==
    /\ pc \in {"ready", "returned"}
    /\ \E docs \in Batches : Enter(docs)
    /\ UNCHANGED history

\* predict.py 618-649: one iteration of the loop
ClassifyNext ==
    /\ pc = "loop"
    /\ idx <= Len(documents)
    /\ LET text == documents[idx]
           r == predict_single(model, tables, world, text)
           res == classify_document(model, tables, world, text)
       IN  /\ predictions' = [f \in DOMAIN predictions \cup {idx} |->
                                 IF f = idx THEN res ELSE predictions[f]]
           /\ log' = [f \in DOMAIN log \cup {idx} |->
                         IF f = idx
                         THEN [single |-> r.error,
                               batch |-> base_model(model, world, text).raises,
                               fused |-> r.fused,
                               scores |-> r.scores]
                         ELSE log[f]]
    /\ idx' = idx + 1
    /\ UNCHANGED <<file, world, pc, model, tables, load_ret, documents, single,
                   history, rule, steps>>

\* predict.py 651-652
Leave ==
    /\ pc = "loop"
    /\ idx > Len(documents)
    /\ pc' = "returned"
    /\ UNCHANGED <<file, world, model, tables, load_ret, documents, idx, predictions,
                   log, single, rule, steps>>

Return == Leave /\ UNCHANGED history

Next == Construct \/ ClearModel \/ StartBatch \/ ClassifyNext \/ Return

Spec == Init /\ [][Next]_vars

(***************************** predict_single on its own *******************)

\* (self.model, the tables are set) of a classifier: trained, loaded from the
\* file a trained one saved, loaded from another file, model cleared
Configurations ==
    {<<"bundled", TRUE>>, <<"bundled", FALSE>>, <<"foreign", FALSE>>, <<"none", TRUE>>}

InitSingle ==
    /\ file = "absent"
    /\ world \in WorldsWithCertain
    /\ \E cfg \in Configurations :
          /\ model = cfg[1]
          /\ tables = cfg[2]
          /\ world.foreign_raises => cfg[1] = "foreign"
          /\ cfg[1] = "none" => (world.top = "other" /\ world.p = 50)
    /\ pc = "single"
    /\ load_ret = FALSE
    /\ documents = <<>>
    /\ idx = 0
    /\ predictions = EmptyMap
    /\ log = EmptyMap
    /\ \E t \in WideTexts : single = [NoCall EXCEPT !.text = t]
    /\ history = <<>>
    /\ rule = NoRule
    /\ steps = NoSteps

\* predict.py 394-425: one call predict_single(text)
PredictSingle ==
    /\ pc = "single"
    /\ ~single.called
    /\ LET r == predict_single(model, tables, world, single.text)
       IN  single' = [text |-> single.text, called |-> TRUE,
                      category |-> r.category, confidence |-> r.confidence,
                      error |-> r.error, fused |-> r.fused, scores |-> r.scores,
                      combined |-> r.combined, best_score |-> r.best_score]
    /\ UNCHANGED <<file, world, pc, model, tables, load_ret, documents, idx,
                   predictions, log, history, rule, steps>>

NextSingle == PredictSingle

SpecSingle == InitSingle /\ [][NextSingle]_vars

(***************************** one text, alone and in company **************)
\* One classifier object, two calls of predict_documents: the first with a
\* single document, the second with any batch that holds the same text again.

InitCalls ==
    /\ file = "absent"
    /\ world \in Worlds
    /\ \E cfg \in Configurations :
          /\ model = cfg[1]
          /\ tables = cfg[2]
          /\ world.foreign_raises => cfg[1] = "foreign"
          /\ cfg[1] = "none" => (world.top = "other" /\ world.p = 50)
    /\ pc = "ready"
    /\ load_ret = FALSE
    /\ documents = <<>>
    /\ idx = 0
    /\ predictions = EmptyMap
    /\ log = EmptyMap
    /\ single = NoCall
    /\ history = <<>>
    /\ rule = NoRule
    /\ steps = NoSteps

\* predict.py 612 and 652: what a call that returns leaves to its caller
Returned(docs, preds) == Append(history, [documents |-> docs, predictions |-> preds])

\* predict.py 600-616: predict_documents({name: text})
FirstCall ==
    /\ pc = "ready"
    /\ history = <<>>
    /\ \E text \in Texts :
          /\ Enter(<<text>>)
          /\ history' = IF model = "none" THEN Returned(<<text>>, EmptyMap) ELSE history

\* predict.py 600-616: predict_documents on a batch that holds the text of the
\* first call, at any position among other documents
SecondCall ==
    /\ pc = "returned"
    /\ Len(history) = 1
    /\ \E docs \in Batches :
          /\ \E f \in DOMAIN docs : docs[f] = history[1].documents[1]
          /\ Enter(docs)
          /\ history' = IF model = "none" THEN Returned(docs, EmptyMap) ELSE history

\* predict.py 651-652
ReturnToCaller == Leave /\ history' = Returned(documents, predictions)

ClassifyInCall == ClassifyNext

NextCalls == FirstCall \/ SecondCall \/ ClassifyInCall \/ ReturnToCaller

SpecCalls == InitCalls /\ [][NextCalls]_vars

(***************************** _combine_predictions on its own *************)
\* The arguments of _combine_predictions drawn directly: the base model's
\* prediction and its maximal probability (kept in world), and a rule score
\* vector (kept in single.scores).

\* max(ml_probabilities) of a model with six classes, in hundredths: at least
\* 1/6, at most 1
FineProbLevels == 17..100

\* enhanced_scores: invoice and memo carry a rule score, the rest none
ScoreVectors ==
    {[initial_scores EXCEPT !["invoice"] = Pct(5 * i), !["memo"] = Pct(10 * j)] :
        i \in -10..50, j \in {-14, 0, 7}}

InitCombine ==
    /\ file = "absent"
    /\ world \in [top : {"invoice", "memo", "legal"}, p : FineProbLevels,
                   foreign_raises : {FALSE}]
    /\ model = "bundled"
    /\ tables = TRUE
    /\ pc = "combine"
    /\ load_ret = FALSE
    /\ documents = <<>>
    /\ idx = 0
    /\ predictions = EmptyMap
    /\ log = EmptyMap
    /\ \E v \in ScoreVectors : single = [NoCall EXCEPT !.scores = v]
    /\ history = <<>>
    /\ rule = NoRule
    /\ steps = NoSteps

\* predict.py 550-598: one call _combine_predictions(ml_prediction,
\* ml_confidence, enhanced_scores)
Combine ==
    /\ pc = "combine"
    /\ ~single.called
    /\ LET r == combine_predictions(world.top, Pct(world.p), single.scores)
       IN  single' = [single EXCEPT !.called = TRUE, !.fused = TRUE,
                                    !.category = r.category,
                                    !.confidence = r.confidence,
                                    !.combined = r.combined,
                                    !.best_score = r.best_score]
    /\ UNCHANGED <<file, world, pc, model, tables, load_ret, documents, idx,
                   predictions, log, history, rule, steps>>

NextCombine == Combine

SpecCombine == InitCombine /\ [][NextCombine]_vars

(***************************** _apply_memo_other_distinction on its own ****)
\* The function reads four match counts from the text and adds to the scores
\* it is given; the counts are drawn from all values the pattern lists allow.

\* predict.py 729-742, 745-807, 843-848, 864-891: lengths of the local lists
memo_indicators_len == 12
other_indicators_len == 60
memo_structure_patterns_len == 4
technical_patterns_len == 25


\* the scores argument: as initialised, or as left by the earlier steps of
\* _calculate_enhanced_scores
IncomingScores ==
    {initial_scores,
     [c \in Categories |->
        CASE c = "invoice"  -> Pct(30)
          [] c = "memo"     -> Pct(40)
          [] c = "legal"    -> Pct(6)
          [] c = "report"   -> Pct(15)
          [] c = "contract" -> Pct(5)
          [] c = "other"    -> 0 - Pct(50)]}

InitRules ==
    /\ file = "absent"
    /\ world = [top |-> "other", p |-> 50, foreign_raises |-> FALSE]
    /\ model = "bundled"
    /\ tables = TRUE
    /\ pc = "rules"
    /\ load_ret = FALSE
    /\ documents = <<>>
    /\ idx = 0
    /\ predictions = EmptyMap
    /\ log = EmptyMap
    /\ single = NoCall
    /\ history = <<>>
    /\ steps = NoSteps
    /\ \E m \in 0..memo_indicators_len, o \in 0..other_indicators_len,
          h \in 0..memo_structure_patterns_len, t \in 0..technical_patterns_len,
          sc \in IncomingScores :
          rule = [NoRule EXCEPT
                    !.text = [EmptyText EXCEPT !.text_length = 1, !.word_count = 1,
                                               !.memo_ind = m, !.other_ind = o,
                                               !.memo_structure_matches = h,
                                               !.technical_matches = t],
                    !.scores = sc]

\* predict.py 724-912: one call _apply_memo_other_distinction(text_lower, scores)
ApplyDistinction ==
    /\ pc = "rules"
    /\ ~rule.applied
    /\ LET text == rule.text
           s1 == indicator_rule(text, rule.scores)
           s2 == structure_rule(text, s1)
           s3 == technical_rule(text, s2)
       IN  rule' = [text |-> text, scores |-> rule.scores, applied |-> TRUE,
                    memo_score |-> memo_score(text),
                    other_score |-> other_score(text),
                    after_indicator |-> s1,
                    after_structure |-> s2,
                    after_technical |-> s3,
                    result |-> apply_memo_other_distinction(text, rule.scores)]
    /\ UNCHANGED <<file, world, pc, model, tables, load_ret, documents, idx,
                   predictions, log, single, history, steps>>

NextRules == ApplyDistinction

SpecRules == InitRules /\ [][NextRules]_vars

(***************************** _calculate_enhanced_scores on its own *******)
\* The function on texts that match any number of one category's patterns,
\* anti-patterns and keywords, and on the wider sample of texts, in a
\* classifier that trained its model and in one that loaded it.

\* predict.py 324-345: len(self.anti_patterns[category])
anti_patterns_len == [c \in anti_pattern_keys |-> 7]

\* predict.py 290-321: len(self.keyword_weights[category][level])
keyword_weights_len ==
    [c \in Categories |->
        CASE c = "invoice" -> [high |-> 7, medium |-> 6, low |-> 5]
          [] c = "memo"    -> [high |-> 6, medium |-> 6, low |-> 5]
          [] c = "legal"   -> [high |-> 6, medium |-> 6, low |-> 5]
          [] OTHER         -> [high |-> 5, medium |-> 5, low |-> 5]]

\* texts that match k patterns, a anti-patterns and h, m, l keywords of one
\* category and nothing else
CountTexts ==
    {[EmptyText EXCEPT !.text_length = 1, !.word_count = 1,
                       !.pattern_matches[c] = k,
                       !.anti_matches = [d \in anti_pattern_keys |->
                                            IF d = c THEN a ELSE 0],
                       !.high[c] = h, !.medium[c] = m, !.low[c] = l] :
        c \in Categories,
        k \in 0..20, a \in 0..7, h \in 0..7, m \in 0..6, l \in 0..5}

InitScores ==
    /\ file = "absent"
    /\ world = [top |-> "other", p |-> 50, foreign_raises |-> FALSE]
    /\ model = "bundled"
    /\ tables \in BOOLEAN
    /\ pc = "scores"
    /\ load_ret = FALSE
    /\ documents = <<>>
    /\ idx = 0
    /\ predictions = EmptyMap
    /\ log = EmptyMap
    /\ single = NoCall
    /\ history = <<>>
    /\ rule = NoRule
    /\ \E text \in CountTexts \cup {t \in WideTexts : t.kind = "str"} :
          /\ \A c \in Categories :
                /\ text.pattern_matches[c] <= structure_patterns_len[c]
                /\ text.high[c] <= keyword_weights_len[c].high
                /\ text.medium[c] <= keyword_weights_len[c].medium
                /\ text.low[c] <= keyword_weights_len[c].low
          /\ \A c \in anti_pattern_keys : text.anti_matches[c] <= anti_patterns_len[c]
          /\ steps = [text |-> text, called |-> FALSE]

\* predict.py 427-486: one call _calculate_enhanced_scores(text)
ScoreText ==
    /\ pc = "scores"
    /\ ~steps.called
    /\ LET text == steps.text
           s1 == pattern_step(tables, text, initial_scores)
           s2 == anti_pattern_step(tables, text, s1)
           s3 == keyword_step(tables, text, s2)
           s4 == format_step(text, s3)
       IN  steps' = [text |-> text, called |-> TRUE,
                     after_patterns |-> s1, after_anti_patterns |-> s2,
                     after_keywords |-> s3, after_format |-> s4,
                     result |-> calculate_enhanced_scores(tables, text)]
    /\ UNCHANGED <<file, world, pc, model, tables, load_ret, documents, idx,
                   predictions, log, single, history, rule>>

NextScores == ScoreText

SpecScores == InitScores /\ [][NextScores]_vars

(***************************** properties **********************************)

\* C1: the confidence predict_single returns lies in [0.0, 1.0], whatever the
\* text, the base model's output and the rule scores, on the fused path, the
\* except path and the model-missing path alike.
C1_ConfidenceBounds ==
    single.called => (0 <= single.confidence /\ single.confidence <= One)

\* C1 witness: a call whose winning fused score exceeds 1.0 while the rule
\* score of some category is negative, answered with confidence 1.0.
C1_Witness ==
    /\ single.called /\ single.fused
    /\ single.best_score > One
    /\ \E c \in Categories : single.scores[c] < 0
    /\ single.confidence = One

\* C2: predict_single returns one of the six categories, and when the fused
\* scores are computed, one whose fused score is maximal.
C2_CategoryIsArgMax ==
    single.called =>
        /\ single.category \in Categories
        /\ single.fused =>
              \A c \in Categories :
                  single.combined[c] <= single.combined[single.category]

\* C2 witness: the rules overrule the base model: the returned category is
\* not the base model's prediction.
C2_Witness ==
    /\ single.called /\ single.fused
    /\ single.category # base_model(model, world, single.text).prediction

\* C7 as stated: the calibrated confidence is never below the winning fused
\* score s, also when s is greater than 1.0.
C7_NeverBelowFused ==
    (single.called /\ single.fused) => single.confidence >= single.best_score

\* C7 amended: the calibrated confidence is never below min(s, 1.0): it is
\* at least s when s <= 1.0 and it is 1.0 when s > 1.0.
C7_NeverBelowClampedFused ==
    (single.called /\ single.fused) =>
        single.confidence >= Min(single.best_score, One)

\* C7 witness: a boosted confidence, strictly above a fused score below 1.0.
C7_Witness ==
    /\ single.called /\ single.fused
    /\ single.best_score > Pct(40) /\ single.best_score < One
    /\ single.confidence > single.best_score

\* the files of the batch
Files == DOMAIN documents

\* C3: predict_documents returns exactly one result per input document, in
\* every state of the classifier.
C3_OneResultPerDocument ==
    pc = "returned" => DOMAIN predictions = Files

\* C4: a batch of one document whose text is "" returns for it exactly
\* (other, 0.0, {}, 0, 0); stated for a classifier that has a model, the
\* case without one being C5's.
C4_EmptyStringDegrades ==
    (pc = "returned" /\ model # "none" /\ documents = <<EmptyText>>) =>
        /\ 1 \in DOMAIN predictions
        /\ predictions[1] = degraded_result

\* C5: with model None every document of the batch receives the fallback
\* result, category other and confidence 0.0.
C5_ModelMissingFallback ==
    (pc = "returned" /\ model = "none") =>
        \A f \in Files :
            /\ f \in DOMAIN predictions
            /\ predictions[f].predicted_category = "other"
            /\ predictions[f].confidence = 0

\* C6: a document during whose classification an exception was raised (in
\* the base model or in rule scoring) has exactly the degraded record.
C6_ExceptionDegrades ==
    \A f \in DOMAIN predictions :
        (log[f].single \/ log[f].batch) => predictions[f] = degraded_result

ArgMax(f) == {c \in DOMAIN f : \A d \in DOMAIN f : f[d] <= f[c]}

\* C9: in every non-degraded result the probabilities map is the base
\* model's own distribution for the text, whatever the rule scores are.
C9_ProbabilitiesAreBaseModel ==
    \A f \in DOMAIN predictions :
        predictions[f] # degraded_result =>
            predictions[f].probabilities
                = base_model(model, world, documents[f]).probabilities

\* C9 witness: a result whose category, taken from the fused scores, is not
\* an arg-max of the reported probabilities.
C9_Witness ==
    \E f \in DOMAIN predictions :
        /\ predictions[f] # degraded_result
        /\ log[f].fused
        /\ predictions[f].predicted_category \notin ArgMax(predictions[f].probabilities)

\* C10 as stated: every result has a probabilities map with exactly the six
\* categories as keys (and every rule score vector has the six keys).
C10_SixKeysAlways ==
    \A f \in DOMAIN predictions :
        /\ DOMAIN predictions[f].probabilities = Categories
        /\ log[f].fused => DOMAIN log[f].scores = Categories

\* C10 amended: a degraded result has an empty probabilities map; every
\* other result has exactly the base model's classes as keys, which are the
\* six categories when the model is the one fit on the bundled corpus; every
\* rule score vector has the six categories as keys.
C10_KeysOfResults ==
    \A f \in DOMAIN predictions :
        /\ \/ predictions[f] = degraded_result
           \/ /\ DOMAIN predictions[f].probabilities = classes_(model)
              /\ model = "bundled" =>
                    DOMAIN predictions[f].probabilities = Categories
        /\ log[f].fused => DOMAIN log[f].scores = Categories

\* C10 witness: a returned batch with a degraded result and a result with
\* the six keys, whose rule score vector was computed.
C10_Witness ==
    /\ pc = "returned"
    /\ \E f, g \in DOMAIN predictions :
          /\ predictions[f] = degraded_result
          /\ predictions[g] # degraded_result
          /\ log[g].fused
          /\ DOMAIN predictions[g].probabilities = Categories

\* the result the first call stored for its only document
AloneResult == history[1].predictions[1]

\* C11: the result predict_documents stores for a text in a batch with other
\* documents is the result it stores for the same text classified alone,
\* whatever the other documents are and wherever the text stands among them.
C11_BatchIndependence ==
    (Len(history) = 2 /\ history[1].predictions # EmptyMap) =>
        \A f \in DOMAIN history[2].documents :
            history[2].documents[f] = history[1].documents[1] =>
                /\ f \in DOMAIN history[2].predictions
                /\ history[2].predictions[f] = AloneResult

\* C11 witness: the text classified alone, then second in a batch behind a
\* different text whose own result differs from it.
C11_Witness ==
    /\ Len(history) = 2
    /\ Len(history[2].documents) = 2
    /\ history[2].documents[2] = history[1].documents[1]
    /\ history[2].documents[1] # history[1].documents[1]
    /\ 2 \in DOMAIN history[2].predictions
    /\ history[2].predictions[1] # history[2].predictions[2]
    /\ history[2].predictions[2] # degraded_result

\* what predict_single returned for a stored result, with the probabilities
Answer(res) == <<res.predicted_category, res.confidence, res.probabilities>>

\* C12: with the classifier's state fixed, the same text receives the same
\* (category, confidence, probabilities) every time it is classified: in
\* another call, at another position, after other texts were classified.
C12_Determinism ==
    \A i, j \in DOMAIN history :
        \A f \in DOMAIN history[i].predictions, g \in DOMAIN history[j].predictions :
            history[i].documents[f] = history[j].documents[g] =>
                Answer(history[i].predictions[f]) = Answer(history[j].predictions[g])

\* C12 witness: the text is classified on the fused path, then again after a
\* document that raised was classified in between.
C12_Witness ==
    /\ Len(history) = 2
    /\ history[1].predictions # EmptyMap
    /\ AloneResult # degraded_result
    /\ \E f, g \in DOMAIN history[2].predictions :
          /\ f < g
          /\ history[2].predictions[f] = degraded_result
          /\ history[2].documents[g] = history[1].documents[1]
          /\ history[2].predictions[g] = AloneResult

\* C13: a classifier whose model was trained on labels other than the six
\* categories (the keys of the pattern bank and of the keyword table) does not
\* come out of initialization: no constructed classifier holds such a model.
C13_MismatchRefused ==
    (pc \in {"ready", "loop", "returned"} /\ model # "none") =>
        classes_(model) = Categories

\* C14: when several categories share the maximal fused score, the returned
\* category is the one that comes first in the order invoice, memo, legal,
\* report, contract, other.
C14_FirstOfEqualMaxima ==
    (single.called /\ single.fused) =>
        \A c \in Categories :
            single.combined[c] = single.combined[single.category] =>
                CatIndex(single.category) <= CatIndex(c)

\* C14 witness: with the model fit on the bundled corpus, two categories the
\* base model did not predict share the maximal fused score.
C14_Witness ==
    /\ single.called /\ single.fused
    /\ model = "bundled"
    /\ \E c \in Categories \ {single.category} :
          single.combined[c] = single.combined[single.category]
    /\ single.combined[single.category] > single.combined[world.top]

C16_ScenarioOne ==
    (single.called /\ single.fused /\ single.text = MemoText) =>
        /\ single.category = "memo"
        /\ single.confidence > Pct(50)

\* C16 witness: a classifier without pattern and keyword tables whose base
\* model is certain of another class answers memo for the header lines.
C16_Witness ==
    /\ single.called /\ single.fused
    /\ single.text = MemoText
    /\ ~tables
    /\ base_model(model, world, single.text).prediction = "invoice"
    /\ MaxOf(base_model(model, world, single.text).probabilities) = One
    /\ single.category = "memo"
    /\ single.confidence < One

\* C17: for each of the six categories the fused score is 0.55 times the ml
\* component plus 0.45 times the rule score, the ml component being the base
\* model's maximal probability for the class it predicts and 0.03 for every
\* other category, whatever probability the base model gives that category;
\* the two weights sum to 1.0.
C17_FusedScore ==
    (single.called /\ single.fused) =>
        LET base == base_model(model, world, single.text)
            ml_component(c) == IF c = base.prediction THEN MaxOf(base.probabilities)
                               ELSE Pct(3)
        IN  /\ \A c \in Categories :
                  single.combined[c] = 55 * (ml_component(c) \div 100)
                                       + 45 * (single.scores[c] \div 100)
            /\ ml_weight + pattern_weight = 100

\* C17 witness: the winner is a category the base model did not predict and
\* to which it gave a probability other than 0.03.
C17_Witness ==
    /\ single.called /\ single.fused
    /\ single.category # base_model(model, world, single.text).prediction
    /\ single.category \in DOMAIN base_model(model, world, single.text).probabilities
    /\ base_model(model, world, single.text).probabilities[single.category] > Pct(3)
    /\ single.scores[single.category] > 0

\* the confidence the calibration rules give for a winning fused score s
Calibrated(s) ==
    IF s <= Pct(40) THEN s
    ELSE IF s <= Pct(50) THEN Min(s + Min(((s - Pct(40)) \div 10) * 8, Pct(15)), One)
    ELSE IF s <= Pct(70) THEN Min(s + Min(s - Pct(50), Pct(20)), One)
    ELSE Min(s + Min(((s - Pct(70)) \div 10) * 12, Pct(25)), One)

\* C18: the confidence is the winning fused score s, raised by
\* min((s-0.4)*0.8, 0.15) for 0.4 < s <= 0.5, by min((s-0.5)*1.0, 0.2) for
\* 0.5 < s <= 0.7, by min((s-0.7)*1.2, 0.25) for s > 0.7, clamped to 1.0; when
\* the winner's rule score r exceeds 0.6, min(r*0.1, 0.1) is added and the sum
\* clamped to 1.0; nothing else is applied.
C18_Calibration ==
    (single.called /\ single.fused) =>
        LET s == single.best_score
            r == single.scores[single.category]
        IN  single.confidence =
                IF r > Pct(60)
                THEN Min(Calibrated(s) + Min(r \div 10, Pct(10)), One)
                ELSE Calibrated(s)

\* C18 witness: a fused score of exactly 0.7 with a winner's rule score above
\* 0.6: raised by 0.2, then by a tenth of the rule score, and below 1.0.
C18_Witness ==
    /\ single.called /\ single.fused
    /\ single.best_score = Pct(70)
    /\ single.scores[single.category] > Pct(60)
    /\ single.scores[single.category] < One
    /\ single.confidence = Pct(90) + single.scores[single.category] \div 10

\* what the indicator-count rules (predict.py 822-840 and 905-910) added to
\* the score of category c in the traced call
IndicatorEffect(c) ==
    (rule.after_indicator[c] - rule.scores[c]) + (rule.result[c] - rule.after_technical[c])

\* C19: when at least one memo indicator and at least one technical
\* indicator match, the indicator-count rules together lower memo and raise
\* other, and lower memo by strictly more than they raise other, for every
\* pair of match counts: more memo than technical weight, equal, or less.
C19_MixedSignals ==
    (rule.applied /\ rule.text.memo_ind >= 1 /\ rule.text.other_ind >= 1) =>
        /\ IndicatorEffect("memo") < 0
        /\ IndicatorEffect("other") > 0
        /\ 0 - IndicatorEffect("memo") > IndicatorEffect("other")

\* C19 witness: more memo indicators than twice the technical ones; memo
\* first gains 0.5 and other loses 0.5, the net effect is -0.3 and +0.1.
C19_Witness ==
    /\ rule.applied
    /\ rule.text.other_ind >= 1
    /\ rule.memo_score > rule.other_score + 1
    /\ rule.after_indicator["memo"] = rule.scores["memo"] + Pct(50)
    /\ IndicatorEffect("memo") = 0 - Pct(30)
    /\ IndicatorEffect("other") = Pct(10)

\* C20: memo_score is the number of memo indicators that match and
\* other_score twice the number of technical indicators that match; with
\* memo indicators only the rule adds 0.6 to memo and takes 0.5 from other;
\* with technical indicators only it adds 0.8 to other and takes 0.7 from
\* memo; with neither it changes no score; no other category is touched.
C20_IndicatorRule ==
    rule.applied =>
        LET m == rule.text.memo_ind
            o == rule.text.other_ind
            expected ==
                IF m > 0 /\ o = 0
                THEN [rule.scores EXCEPT !["memo"] = @ + Pct(60), !["other"] = @ - Pct(50)]
                ELSE IF o > 0 /\ m = 0
                THEN [rule.scores EXCEPT !["other"] = @ + Pct(80), !["memo"] = @ - Pct(70)]
                ELSE rule.scores
        IN  /\ rule.memo_score = m
            /\ rule.other_score = 2 * o
            /\ (m = 0 \/ o = 0) => rule.after_indicator = expected

\* C20 witness: five technical indicators and no memo indicator: other_score
\* is 10, other gained 0.8 and memo lost 0.7.
C20_Witness ==
    /\ rule.applied
    /\ rule.text.memo_ind = 0
    /\ rule.text.other_ind = 5
    /\ rule.other_score = 10
    /\ rule.after_indicator["other"] = rule.scores["other"] + Pct(80)
    /\ rule.after_indicator["memo"] = rule.scores["memo"] - Pct(70)

\* C21: the header-line rule acts only when no technical indicator matched:
\* three or four header patterns add 0.6 to memo and take 0.5 from other, two
\* add 0.4 and take 0.3; fewer than two, or any technical indicator, and the
\* rule changes no score.
C21_HeaderRule ==
    rule.applied =>
        LET h == rule.text.memo_structure_matches
            before == rule.after_indicator
            expected ==
                IF rule.text.other_ind = 0 /\ h >= 3
                THEN [before EXCEPT !["memo"] = @ + Pct(60), !["other"] = @ - Pct(50)]
                ELSE IF rule.text.other_ind = 0 /\ h = 2
                THEN [before EXCEPT !["memo"] = @ + Pct(40), !["other"] = @ - Pct(30)]
                ELSE before
        IN  rule.after_structure = expected

\* C21 witness: four header lines and a technical indicator: nothing added;
\* the memo indicators outnumber the technical weight.
C21_Witness ==
    /\ rule.applied
    /\ rule.text.memo_structure_matches = 4
    /\ rule.text.other_ind = 1
    /\ rule.text.memo_ind = 3
    /\ rule.after_structure = rule.after_indicator

\* C22: the technical-structure rule reads the technical-structure count
\* alone: two or more add 0.7 to other and take 0.6 from memo, one adds 0.4
\* and takes 0.3, none changes nothing, whatever the indicator counts and the
\* header count are.
C22_TechnicalRule ==
    rule.applied =>
        LET t == rule.text.technical_matches
            before == rule.after_structure
            expected ==
                IF t >= 2
                THEN [before EXCEPT !["other"] = @ + Pct(70), !["memo"] = @ - Pct(60)]
                ELSE IF t = 1
                THEN [before EXCEPT !["other"] = @ + Pct(40), !["memo"] = @ - Pct(30)]
                ELSE before
        IN  rule.after_technical = expected

\* C22 witness: one technical-structure pattern in a text with memo
\* indicators only and four header lines.
C22_Witness ==
    /\ rule.applied
    /\ rule.text.technical_matches = 1
    /\ rule.text.memo_ind = 2 /\ rule.text.other_ind = 0
    /\ rule.text.memo_structure_matches = 4
    /\ rule.after_technical["other"] = rule.after_structure["other"] + Pct(40)
    /\ rule.after_technical["memo"] = rule.after_structure["memo"] - Pct(30)

\* C23: what _apply_memo_other_distinction adds to the scores it is given is
\* a function of the text alone, the same whatever the incoming scores are,
\* and it is added to memo and other only: invoice, legal, report and
\* contract leave the call as they entered it.
C23_PureAdditive ==
    rule.applied =>
        LET delta == apply_memo_other_distinction(rule.text, initial_scores)
        IN  /\ \A c \in Categories : rule.result[c] = rule.scores[c] + delta[c]
            /\ \A c \in Categories \ {"memo", "other"} : rule.result[c] = rule.scores[c]
            /\ DOMAIN rule.result = Categories

\* C23 witness: nonzero incoming scores in all six categories, a text that
\* fires the indicator, technical-structure and mixed-signal rules.
C23_Witness ==
    /\ rule.applied
    /\ \A c \in Categories : rule.scores[c] # 0
    /\ rule.text.memo_ind >= 1 /\ rule.text.other_ind >= 1
    /\ rule.text.technical_matches >= 2
    /\ rule.result["memo"] < rule.scores["memo"]
    /\ rule.result["other"] > rule.scores["other"]

\* C24: for each category the pattern step adds 0.6 * k / n to the score,
\* k the number of the category's n patterns that the text matches; the
\* amount lies in [0, 0.6].
C24_PatternContribution ==
    steps.called =>
        \A c \in Categories :
            LET contribution == steps.after_patterns[c] - initial_scores[c]
            IN  /\ contribution = (Pct(60) * steps.text.pattern_matches[c])
                                      \div structure_patterns_len[c]
                /\ 0 <= contribution /\ contribution <= Pct(60)

\* C25: for each category the keyword step adds
\* min(0.4 * high + 0.3 * medium + 0.15 * low, 0.8), the counts being the
\* category's keywords present in the text; never more than 0.8.
C25_KeywordContribution ==
    steps.called =>
        \A c \in Categories :
            LET contribution == steps.after_keywords[c] - steps.after_anti_patterns[c]
                sum == Pct(40) * steps.text.high[c] + Pct(30) * steps.text.medium[c]
                       + Pct(15) * steps.text.low[c]
            IN  /\ contribution = Min(sum, Pct(80))
                /\ contribution <= Pct(80)

\* C26: the anti-pattern step subtracts min(0.4 * a, 0.8) from memo and from
\* other, a the number of the category's anti-patterns that the text matches,
\* and leaves invoice, legal, report and contract as they were.
C26_AntiPatternPenalty ==
    steps.called =>
        /\ \A c \in anti_pattern_keys :
              steps.after_patterns[c] - steps.after_anti_patterns[c]
                  = Min(Pct(40) * steps.text.anti_matches[c], Pct(80))
        /\ \A c \in Categories \ anti_pattern_keys :
              steps.after_anti_patterns[c] = steps.after_patterns[c]

\* C27: a classifier that loaded the model a trained classifier saved gives
\* every document the category and the confidence the trained classifier
\* gives it.
C27_LoadedAsTrained ==
    \A f \in DOMAIN predictions :
        model = "bundled" =>
            LET trained == classify_document("bundled", TRUE, world, documents[f])
            IN  /\ predictions[f].predicted_category = trained.predicted_category
                /\ predictions[f].confidence = trained.confidence

\* the branch of the calibration (predict.py 576-586) a fused score falls in;
\* the branch for 0.4 < s <= 0.5 continues s <= 0.4 without a step
calibration_branch(s) ==
    IF s > Pct(70) THEN "strong" ELSE IF s > Pct(50) THEN "good" ELSE "decent"

\* how far above the winning fused score, in hundredths, the second score of
\* a comparison is taken
MaxRise == 30

\* the confidence _combine_predictions gives a winning fused score s when the
\* winner's rule score is r
confidence_of(s, r) == pattern_boosted(boosted_confidence(s), r)

\* C28 as stated: for a fixed rule component and any two winning fused scores
\* s1 <= s2 the confidence of s1 is at most the confidence of s2, across the
\* thresholds 0.5 and 0.7 too.
C28_Monotone ==
    (single.called /\ single.fused) =>
        LET s1 == single.best_score
            r == single.scores[single.category]
        IN  \A k \in 0..MaxRise :
                single.confidence <= confidence_of(s1 + Pct(k), r)

\* C28 amended: for a fixed rule component and two winning fused scores
\* s1 <= s2 in the same branch of the calibration (s <= 0.5, 0.5 < s <= 0.7,
\* s > 0.7) the confidence of s1 is at most the confidence of s2.
C28_MonotoneWithinBranch ==
    (single.called /\ single.fused) =>
        LET s1 == single.best_score
            r == single.scores[single.category]
        IN  /\ single.confidence = confidence_of(s1, r)
            /\ \A k \in 0..MaxRise :
                    calibration_branch(s1 + Pct(k)) = calibration_branch(s1) =>
                        single.confidence <= confidence_of(s1 + Pct(k), r)

\* C28 witness: a winning fused score in the branch above 0.7 whose
\* confidence is strictly below the confidence of the fused score 0.05 higher,
\* the rule component being the same.
C28_Witness ==
    /\ single.called /\ single.fused
    /\ single.best_score > Pct(70)
    /\ single.confidence < confidence_of(single.best_score + Pct(5),
                                         single.scores[single.category])

\* the categories no rule ever lowers (predict.py 445-454 and 724-912 touch
\* memo and other only)
never_lowered == Categories \ anti_pattern_keys

\* 0.55 * 0.03, the fused score of a category the base model did not predict
\* and no rule raised
floor_score == (Pct(ml_baseline) \div 100) * ml_weight

\* C29: when predict_single completes without an exception and with a model
\* present, the confidence is at least 0.55 * 0.03, since the rule scores of
\* invoice, legal, report and contract are never negative; a confidence of 0.0
\* is returned only when the model is missing or an exception was caught.
C29_PositiveConfidence ==
    single.called =>
        /\ (model # "none" /\ ~single.error) =>
                /\ single.fused
                /\ \A c \in never_lowered : single.scores[c] >= 0
                /\ single.confidence >= floor_score
                /\ single.confidence > 0
        /\ single.confidence = 0 => (model = "none" \/ single.error)

\* C29 witness: a completed call whose confidence is exactly 0.55 * 0.03: the
\* base model predicted a label outside the six categories and no rule raised
\* any score.
C29_Witness ==
    /\ single.called /\ single.fused
    /\ model # "none" /\ ~single.error
    /\ base_model(model, world, single.text).prediction \notin Categories
    /\ \A c \in Categories : single.scores[c] <= 0
    /\ single.confidence = floor_score

\* C30: whenever the text matches at least one memo indicator and at least
\* one technical (other) indicator, the category predict_single returns is
\* never memo, whatever the pattern, keyword and format matches and whatever
\* the base model answered.
C30_MixedNeverMemo ==
    (/\ single.called /\ single.fused
     /\ single.text.memo_ind >= 1
     /\ single.text.other_ind >= 1) => single.category # "memo"

====
